---- MODULE Spec2Model ----
(***************************************************************************)
(* Verification model of the cursortab completion engine (server/engine)   *)
(* and of the batch staging pipeline (server/text).                        *)
(*                                                                         *)
(* Spec        : the engine state machine: editor callbacks, timers,       *)
(*               request / prefetch workers and the event loop.            *)
(* SpecStaging : the staging pipeline as a pure function of a provider     *)
(*               response, followed by accepting the stages in order.      *)
(***************************************************************************)
EXTENDS Integers, Sequences, FiniteSets, TLC

(***************************************************************************)
(* Bounds of the model.                                                    *)
(***************************************************************************)
\* number of buffer lines the engine model tracks
NumLines == 2
\* capacity used for the event channel (make(chan Event, 100) in the code)
MaxQueue == 1
\* main completion requests issued in one run
MaxReqs == 2
\* prefetch requests issued in one run
MaxPrefetch == 2
\* events e.eventChan holds at once, in SpecLoop
LoopQueue == 2
\* events the editor posts in one run of SpecLoop
MaxPosts == 3
\* handlers that panic in one run of SpecLoop
MaxPanics == 1

VARIABLES
    \* ---- Engine fields (Engine struct) ----
    state,                  \* e.state
    stopped,                \* e.stopped
    n,                      \* e.n # nil (SetNvim was called)
    mainCtxDone,            \* e.mainCancel() was called
    currentCancel,          \* e.currentCancel: id of the request it cancels, 0 = nil
    prefetchCancel,         \* e.prefetchCancel: id of the prefetch it cancels, 0 = nil
    idleTimer,              \* e.idleTimer: the timers made for it that can still fire
    textChangeTimer,        \* e.textChangeTimer: likewise
    eventChan,              \* e.eventChan
    completions,            \* e.completions
    applyBatch,             \* e.applyBatch: <<>> = nil, <<batch>> otherwise
    cursorTarget,           \* e.cursorTarget: <<>> = nil
    stagedCompletion,       \* e.stagedCompletion: <<>> = nil
    prefetchedCompletions,  \* e.prefetchedCompletions
    prefetchedCursorTarget, \* e.prefetchedCursorTarget: <<>> = nil
    prefetchInProgress,     \* e.prefetchInProgress
    waitingForPrefetchOnTab,
    waitingForPrefetchCursorPrediction,
    config,                 \* e.config.CursorPrediction
    \* ---- goroutines spawned by requestCompletion / requestPrefetch ----
    reqs,                   \* one record per main request, in order of issue
    pfs,                    \* one record per prefetch, in order of issue
    \* ---- the editor and the engine's snapshot of it (text.Buffer) ----
    edLines, edRow,         \* what the editor holds
    bufLines, bufRow,       \* e.buffer.Lines, e.buffer.Row (as of the last SyncIn)
    ui,                     \* what the editor displays
    \* ---- staging pipeline (SpecStaging) ----
    sg,
    \* ---- partial accept of a stage (SpecPartial) ----
    pa,
    \* ---- e.fileStateStore and its clock (SpecFiles) ----
    fs,
    \* ---- e.mu and the bookkeeping of the event loop (SpecLoop) ----
    mu, lp,
    \* ---- the stagers over LineChange changes (SpecStager) ----
    st,
    \* ---- Stop racing the callbacks and the workers (SpecRace) ----
    rc,
    \* ---- an accept whose batch may fail (SpecAccept) ----
    ac,
    \* ---- clearState of engine.go (SpecClear) ----
    cl,
    \* ---- truncateContext of the provider (SpecTruncate) ----
    tc

engineVars == <<state, stopped, n, mainCtxDone, currentCancel, prefetchCancel,
                idleTimer, textChangeTimer, eventChan, completions, applyBatch,
                cursorTarget, stagedCompletion, prefetchedCompletions,
                prefetchedCursorTarget, prefetchInProgress, waitingForPrefetchOnTab,
                waitingForPrefetchCursorPrediction, config, reqs, pfs,
                edLines, edRow, bufLines, bufRow, ui>>

vars == <<state, stopped, n, mainCtxDone, currentCancel, prefetchCancel,
          idleTimer, textChangeTimer, eventChan, completions, applyBatch,
          cursorTarget, stagedCompletion, prefetchedCompletions,
          prefetchedCursorTarget, prefetchInProgress, waitingForPrefetchOnTab,
          waitingForPrefetchCursorPrediction, config, reqs, pfs,
          edLines, edRow, bufLines, bufRow, ui, sg, pa, fs, mu, lp, st,
          rc, ac, cl, tc>>

\* the variables of the specifications added last
restVars == <<rc, ac, cl, tc>>

\* e.config.CursorPrediction.DistThreshold
DistThreshold == 3

(***************************************************************************)
(* Engine states and events.                                               *)
(***************************************************************************)
stateIdle == "Idle"
statePendingCompletion == "PendingCompletion"
stateHasCompletion == "HasCompletion"
stateHasCursorTarget == "HasCursorTarget"

EventEsc == "esc"
EventTextChanged == "text_changed"
EventTextChangeTimeout == "trigger_completion"
EventCursorMovedNormal == "cursor_moved_normal"
EventInsertEnter == "insert_enter"
EventInsertLeave == "insert_leave"
EventTab == "tab"
EventIdleTimeout == "idle_timeout"
EventCompletionReady == "completion_ready"
EventCompletionError == "completion_error"
EventPrefetchReady == "prefetch_ready"
EventPrefetchError == "prefetch_error"

\* the events the editor plugin sends through the cursortab_event handler
EditorEvents == {EventEsc, EventTextChanged, EventCursorMovedNormal,
                 EventInsertEnter, EventInsertLeave, EventTab}

Rows == 1..NumLines

(***************************************************************************)
(* Provider responses.  A line of the buffer is 0 (as the user left it) or *)
(* 1 (as the model wants it); a completion rewrites one line to 1.         *)
(***************************************************************************)
Completion(k) == [StartLine |-> k, EndLineInc |-> k, Lines |-> <<1>>]

Target(line, retrigger) == [LineNumber |-> line, ShouldRetrigger |-> retrigger]

NoResponse == [Completions |-> <<>>, CursorTarget |-> <<>>, Stages |-> <<>>]

\* responses the provider may return: no completion or one completion, with or
\* without a cursor target
PlainResponses ==
    { [Completions |-> c, CursorTarget |-> t, Stages |-> <<>>] :
        c \in {<<>>} \cup { <<Completion(k)>> : k \in Rows },
        t \in {<<>>} \cup { <<Target(NumLines, b)>> : b \in BOOLEAN } }


\* stages of a two-stage completion, shaped as buildStagesFromClusters shapes
\* them: every stage but the last targets the next stage's first line without
\* retrigger, the last targets its own last line with retrigger
StagesOf(ks) ==
    [i \in 1..Len(ks) |->
        [Completion   |-> Completion(ks[i]),
         CursorTarget |-> IF i = Len(ks)
                          THEN <<Target(Completion(ks[i]).EndLineInc, TRUE)>>
                          ELSE <<Target(Completion(ks[i + 1]).StartLine, FALSE)>>,
         IsLastStage  |-> i = Len(ks)]]

\* a response whose diff falls into two clusters, one on the first and one on
\* the last line
StagedResponses ==
    { [Completions |-> <<Completion(ks[1])>>, CursorTarget |-> <<>>,
       Stages |-> StagesOf(ks)] : ks \in {<<1, NumLines>>, <<NumLines, 1>>} }

\* CreateStages lists the cluster nearest the cursor row first, and of two
\* equally near ones the upper
NearestFirst(row, response) ==
    IF response.Stages = <<>> THEN TRUE
    ELSE LET dist(k) == IF row >= k THEN row - k ELSE k - row
             a == response.Stages[1].Completion.StartLine
             b == response.Stages[2].Completion.StartLine
         IN IF dist(a) = dist(b) THEN a < b ELSE dist(a) < dist(b)

Responses == PlainResponses \cup StagedResponses

(***************************************************************************)
(* The engine as one record, so that the Go methods become operators from  *)
(* engine to engine and compose the way the calls do.                      *)
(***************************************************************************)
Cur ==
    [state |-> state, stopped |-> stopped, n |-> n, mainCtxDone |-> mainCtxDone,
     currentCancel |-> currentCancel, prefetchCancel |-> prefetchCancel,
     idleTimer |-> idleTimer, textChangeTimer |-> textChangeTimer,
     eventChan |-> eventChan, completions |-> completions,
     applyBatch |-> applyBatch, cursorTarget |-> cursorTarget,
     stagedCompletion |-> stagedCompletion,
     prefetchedCompletions |-> prefetchedCompletions,
     prefetchedCursorTarget |-> prefetchedCursorTarget,
     prefetchInProgress |-> prefetchInProgress,
     waitingForPrefetchOnTab |-> waitingForPrefetchOnTab,
     waitingForPrefetchCursorPrediction |-> waitingForPrefetchCursorPrediction,
     config |-> config, reqs |-> reqs, pfs |-> pfs,
     edLines |-> edLines, edRow |-> edRow, bufLines |-> bufLines,
     bufRow |-> bufRow, ui |-> ui]

Install(e) ==
    /\ state' = e.state
    /\ stopped' = e.stopped
    /\ n' = e.n
    /\ mainCtxDone' = e.mainCtxDone
    /\ currentCancel' = e.currentCancel
    /\ prefetchCancel' = e.prefetchCancel
    /\ idleTimer' = e.idleTimer
    /\ textChangeTimer' = e.textChangeTimer
    /\ eventChan' = e.eventChan
    /\ completions' = e.completions
    /\ applyBatch' = e.applyBatch
    /\ cursorTarget' = e.cursorTarget
    /\ stagedCompletion' = e.stagedCompletion
    /\ prefetchedCompletions' = e.prefetchedCompletions
    /\ prefetchedCursorTarget' = e.prefetchedCursorTarget
    /\ prefetchInProgress' = e.prefetchInProgress
    /\ waitingForPrefetchOnTab' = e.waitingForPrefetchOnTab
    /\ waitingForPrefetchCursorPrediction' = e.waitingForPrefetchCursorPrediction
    /\ config' = e.config
    /\ reqs' = e.reqs
    /\ pfs' = e.pfs
    /\ edLines' = e.edLines
    /\ edRow' = e.edRow
    /\ bufLines' = e.bufLines
    /\ bufRow' = e.bufRow
    /\ ui' = e.ui

(***************************************************************************)
(* text.Buffer: the editor collaborator.                                   *)
(***************************************************************************)
NoUI == [kind |-> "none", line |-> 0]

\* Buffer.SyncIn: pull lines and cursor from the editor
SyncIn(e) == [e EXCEPT !.bufLines = e.edLines, !.bufRow = e.edRow]

\* Buffer.OnReject: clear ghost text and jump indicator
OnReject(e) == [e EXCEPT !.ui = NoUI]

\* Buffer.HasChanges(start, endInc, lines)
HasChanges(e, c) ==
    \/ c.EndLineInc > Len(e.bufLines)
    \/ SubSeq(e.bufLines, c.StartLine, c.EndLineInc) # c.Lines

\* the replace batch Buffer.OnCompletionReady builds
Batch(c) == [start |-> c.StartLine, endInc |-> c.EndLineInc, lines |-> c.Lines]

\* Buffer.OnCompletionReady: show the completion, return the batch unapplied
OnCompletionReady(e, c) ==
    [e EXCEPT !.ui = [kind |-> "completion", line |-> c.StartLine],
              !.applyBatch = <<Batch(c)>>]

\* Buffer.OnCursorPredictionReady(line): show the jump indicator
OnCursorPredictionReady(e, line) ==
    [e EXCEPT !.ui = [kind |-> "cursor_target", line |-> line]]

\* Buffer.MoveCursorToStartOfLine(line, true, true)
MoveCursorToStartOfLine(e, line) == [e EXCEPT !.edRow = line]

ReplaceLines(lines, start, endInc, new) ==
    SubSeq(lines, 1, start - 1) \o new \o SubSeq(lines, endInc + 1, Len(lines))

\* Batch.Execute: the editor replaces the lines
Execute(e) ==
    LET b == e.applyBatch[1]
    IN [e EXCEPT !.edLines = ReplaceLines(@, b.start, b.endInc, b.lines)]

\* text.FindFirstChangedLine(oldLines, newLines, baseOffset): the buffer line of
\* the first position where the two differ, 0 if none
FindFirstChangedLine(oldLines, newLines, baseOffset) ==
    LET len == IF Len(oldLines) > Len(newLines) THEN Len(oldLines) ELSE Len(newLines)
        differs(i) == \/ i > Len(oldLines)
                      \/ i > Len(newLines)
                      \/ oldLines[i] # newLines[i]
        D == { i \in 1..len : differs(i) }
    IN IF D = {} THEN 0
       ELSE baseOffset + (CHOOSE i \in D : \A j \in D : i <= j)

(***************************************************************************)
(* Contexts: cancelling a request's context marks its record.              *)
(***************************************************************************)
\* a spawned goroutine: "running" until provider.GetCompletion returned,
\* "posted" after the select sent its event, "exited" when the select took
\* mainCtx.Done() instead
NewWorker ==
    [cancelled |-> FALSE, phase |-> "running", posts |-> 0,
     postedAfterCancel |-> FALSE]

Finished(w) == w.phase \in {"posted", "exited"}

\* calling a context's cancel function; the goroutine's deferred cancel() has
\* already done so once it finished
Cancelled(w) == IF Finished(w) THEN w ELSE [w EXCEPT !.cancelled = TRUE]

CancelCurrent(e) ==
    IF e.currentCancel # 0
    THEN [e EXCEPT !.reqs[e.currentCancel] = Cancelled(@),
                   !.currentCancel = 0]
    ELSE e

CancelPrefetch(e) ==
    IF e.prefetchCancel # 0
    THEN [e EXCEPT !.pfs[e.prefetchCancel] = Cancelled(@),
                   !.prefetchCancel = 0]
    ELSE e

(***************************************************************************)
(* Timers (engine/timer.go).                                               *)
(***************************************************************************)
stopIdleTimer(e) ==
    IF e.idleTimer # 0 THEN [e EXCEPT !.idleTimer = @ - 1] ELSE e

startIdleTimer(e) == [stopIdleTimer(e) EXCEPT !.idleTimer = @ + 1]

resetIdleTimer(e) == startIdleTimer(stopIdleTimer(e))

stopTextChangeTimer(e) ==
    IF e.textChangeTimer # 0 THEN [e EXCEPT !.textChangeTimer = @ - 1] ELSE e

\* startTextChangeTimer leaving the previous timer running
startTextChangeTimer_NoStop(e) ==
    [e EXCEPT !.textChangeTimer = @ + 1]

startTextChangeTimer(e) ==
    [stopTextChangeTimer(e) EXCEPT !.textChangeTimer = @ + 1]


(***************************************************************************)
(* Engine methods.                                                         *)
(***************************************************************************)
clearStateUnsafe(e) ==
    [e EXCEPT !.state = stateIdle,
              !.completions = <<>>,
              !.applyBatch = <<>>,
              !.cursorTarget = <<>>,
              !.stagedCompletion = <<>>,
              !.prefetchedCompletions = <<>>,
              !.prefetchedCursorTarget = <<>>,
              !.prefetchInProgress = FALSE,
              !.waitingForPrefetchOnTab = FALSE]

clearCompletionState(e) ==
    LET e1 == CancelPrefetch(CancelCurrent(e))
        e2 == IF e1.n THEN OnReject(e1) ELSE e1
    IN [e2 EXCEPT !.completions = <<>>,
                  !.applyBatch = <<>>,
                  !.stagedCompletion = <<>>,
                  !.prefetchedCompletions = <<>>,
                  !.prefetchedCursorTarget = <<>>,
                  !.prefetchInProgress = FALSE,
                  !.waitingForPrefetchOnTab = FALSE,
                  !.waitingForPrefetchCursorPrediction = FALSE]

clearCompletionStateExceptPrefetch(e) ==
    LET e1 == CancelCurrent(e)
        e2 == IF e1.n THEN OnReject(e1) ELSE e1
    IN [e2 EXCEPT !.completions = <<>>, !.applyBatch = <<>>]

reject(e) ==
    [clearCompletionState(e) EXCEPT !.state = stateIdle, !.cursorTarget = <<>>]

\* the new context's cancel function overwrites e.currentCancel; the goroutine
\* becomes request number Len(reqs) + 1
requestCompletion(e) ==
    IF e.stopped \/ ~e.n THEN e
    ELSE LET e1 == SyncIn([e EXCEPT !.state = statePendingCompletion])
         IN [e1 EXCEPT !.reqs = Append(@, NewWorker),
                       !.currentCancel = Len(e.reqs) + 1]

requestPrefetch(e) ==
    IF e.stopped \/ ~e.n THEN e
    ELSE LET e1 == IF e.prefetchCancel # 0
                   THEN [CancelPrefetch(e) EXCEPT !.prefetchInProgress = FALSE]
                   ELSE e
             e2 == SyncIn(e1)
         IN [e2 EXCEPT !.pfs = Append(@, NewWorker),
                       !.prefetchCancel = Len(e.pfs) + 1,
                       !.prefetchInProgress = TRUE]

\* clearCompletionUIOnly cancelling the prefetch as clearCompletionState does
clearCompletionUIOnly_CancelsPrefetch(e) ==
    [CancelPrefetch(CancelCurrent(e)) EXCEPT !.completions = <<>>,
                                             !.applyBatch = <<>>,
                                             !.stagedCompletion = <<>>,
                                             !.state = stateIdle,
                                             !.cursorTarget = <<>>]

clearCompletionUIOnly(e) ==
    [CancelCurrent(e) EXCEPT !.completions = <<>>,
                             !.applyBatch = <<>>,
                             !.stagedCompletion = <<>>,
                             !.state = stateIdle,
                             !.cursorTarget = <<>>]

handleCursorTarget(e) ==
    IF ~e.config.Enabled THEN clearCompletionUIOnly(e)
    ELSE IF e.cursorTarget # <<>> /\ e.cursorTarget[1].LineNumber >= 1
    THEN IF e.bufRow = e.cursorTarget[1].LineNumber
         THEN clearCompletionUIOnly(
                  IF e.prefetchInProgress
                  THEN [e EXCEPT !.waitingForPrefetchCursorPrediction = TRUE]
                  ELSE e)
         ELSE OnCursorPredictionReady(
                  [e EXCEPT !.state = stateHasCursorTarget],
                  e.cursorTarget[1].LineNumber)
    ELSE clearCompletionUIOnly(e)

\* acceptCompletion without the batch's Execute
acceptCompletion_KeepsBuffer(e) ==
    LET e2 == clearCompletionStateExceptPrefetch(e)
        more == /\ e2.stagedCompletion # <<>>
                /\ e2.stagedCompletion[1].CurrentIdx + 1
                       < Len(e2.stagedCompletion[1].Stages)
        e3 == IF e2.stagedCompletion = <<>> THEN e2
              ELSE IF more
              THEN [e2 EXCEPT !.stagedCompletion[1].CurrentIdx = @ + 1]
              ELSE [e2 EXCEPT !.stagedCompletion = <<>>]
        e4 == IF e3.cursorTarget # <<>> /\ e3.cursorTarget[1].ShouldRetrigger
              THEN requestPrefetch(SyncIn(e3))
              ELSE e3
    IN IF more THEN handleCursorTarget(SyncIn(e3))
       ELSE handleCursorTarget(e4)

acceptCompletion(e) ==
    LET e1 == IF e.applyBatch # <<>> THEN Execute(e) ELSE e
        e2 == clearCompletionStateExceptPrefetch(e1)
        more == /\ e2.stagedCompletion # <<>>
                /\ e2.stagedCompletion[1].CurrentIdx + 1
                       < Len(e2.stagedCompletion[1].Stages)
        e3 == IF e2.stagedCompletion = <<>> THEN e2
              ELSE IF more
              THEN [e2 EXCEPT !.stagedCompletion[1].CurrentIdx = @ + 1]
              ELSE [e2 EXCEPT !.stagedCompletion = <<>>]
        e4 == IF e3.cursorTarget # <<>> /\ e3.cursorTarget[1].ShouldRetrigger
              THEN requestPrefetch(SyncIn(e3))
              ELSE e3
    IN IF more THEN handleCursorTarget(SyncIn(e3))
       ELSE handleCursorTarget(e4)

showCurrentStage(e) ==
    IF \/ e.stagedCompletion = <<>>
       \/ e.stagedCompletion[1].CurrentIdx >= Len(e.stagedCompletion[1].Stages)
    THEN e
    ELSE LET stage == e.stagedCompletion[1].Stages[e.stagedCompletion[1].CurrentIdx + 1]
         IN OnCompletionReady(
                [e EXCEPT !.completions = <<stage.Completion>>,
                          !.cursorTarget = stage.CursorTarget,
                          !.state = stateHasCompletion],
                stage.Completion)


\* the block acceptCursorTarget and handleDeferredCursorTarget share: promote
\* the prefetched completion to the shown one
showPrefetched(e) ==
    LET e1 == SyncIn(e)
        auto == e.config.AutoAdvance /\ e.config.Enabled
        comps == e.prefetchedCompletions
        e2 == [e1 EXCEPT
                 !.state = stateHasCompletion,
                 !.completions = comps,
                 !.cursorTarget =
                     IF e.prefetchedCursorTarget # <<>> THEN e.prefetchedCursorTarget
                     ELSE IF auto THEN <<Target(comps[1].EndLineInc, TRUE)>>
                     ELSE <<>>,
                 !.prefetchedCompletions = <<>>,
                 !.prefetchedCursorTarget = <<>>]
    IN IF HasChanges(e2, comps[1])
       THEN OnCompletionReady(e2, comps[1])
       ELSE handleCursorTarget(e2)

acceptCursorTarget(e) ==
    IF ~e.n \/ e.cursorTarget = <<>> THEN e
    ELSE LET e1 == OnReject(MoveCursorToStartOfLine(e, e.cursorTarget[1].LineNumber))
         IN IF /\ e1.stagedCompletion # <<>>
               /\ e1.stagedCompletion[1].CurrentIdx < Len(e1.stagedCompletion[1].Stages)
            THEN showCurrentStage(SyncIn(e1))
            ELSE IF Len(e1.prefetchedCompletions) > 0 THEN showPrefetched(e1)
            ELSE IF e1.prefetchInProgress
            THEN [e1 EXCEPT !.waitingForPrefetchOnTab = TRUE]
            ELSE IF e1.cursorTarget[1].ShouldRetrigger
            THEN [requestCompletion(e1) EXCEPT !.state = stateIdle,
                                                !.cursorTarget = <<>>]
            ELSE [e1 EXCEPT !.state = stateIdle, !.cursorTarget = <<>>]

handleDeferredCursorTarget(e) ==
    IF ~e.n \/ e.cursorTarget = <<>> THEN e
    ELSE IF Len(e.prefetchedCompletions) > 0 THEN showPrefetched(e)
    ELSE IF e.cursorTarget[1].ShouldRetrigger
    THEN [requestCompletion(e) EXCEPT !.state = stateIdle, !.cursorTarget = <<>>]
    ELSE [e EXCEPT !.state = stateIdle, !.cursorTarget = <<>>]

(***************************************************************************)
(* Event handlers (engine/events.go and the switch of handleEvent).        *)
(***************************************************************************)
handleEsc(e) == stopIdleTimer(reject(e))

handleTextChange(e) == startTextChangeTimer(reject(e))

handleTextChangeTimeout(e) == requestCompletion(e)

handleCursorMoveNormal(e) == resetIdleTimer(reject(e))

handleInsertEnter(e) == stopIdleTimer(e)

handleInsertLeave(e) == startIdleTimer(reject(e))

handleTab(e) ==
    IF ~e.n THEN e
    ELSE IF e.state = stateHasCompletion THEN acceptCompletion(e)
    ELSE IF e.state = stateHasCursorTarget THEN acceptCursorTarget(e)
    ELSE e

\* handleIdleTimeout without the test of the state
handleIdleTimeout_AnyState(e) ==
    requestCompletion(e)

handleIdleTimeout(e) ==
    IF e.state = stateIdle THEN requestCompletion(e) ELSE e

\* a response that the stager split into stages is stored as the staged
\* completion and its first stage is shown
storeStagedCompletion(e, response) ==
    showCurrentStage(
        [e EXCEPT !.stagedCompletion =
                      <<[Stages |-> response.Stages, CurrentIdx |-> 0]>>])

handleCompletionReady(e, response) ==
    IF ~e.n THEN e
    ELSE IF response.Stages # <<>> THEN storeStagedCompletion(e, response)
    ELSE LET e1 == [e EXCEPT !.state = stateHasCompletion,
                             !.completions = response.Completions,
                             !.cursorTarget = response.CursorTarget]
         IN IF Len(response.Completions) > 0
            THEN IF HasChanges(e1, response.Completions[1])
                 THEN OnCompletionReady(e1, response.Completions[1])
                 ELSE handleCursorTarget(e1)
            ELSE handleCursorTarget(e1)

\* case EventCompletionError of handleEvent: the error is logged
handleCompletionError(e, err) == e

\* case EventPrefetchReady of handleEvent
handlePrefetchReady(e, resp) ==
    LET e1 == [e EXCEPT !.prefetchedCompletions = resp.Completions,
                        !.prefetchedCursorTarget = resp.CursorTarget,
                        !.prefetchInProgress = FALSE]
        e2 == IF e1.waitingForPrefetchOnTab
              THEN handleDeferredCursorTarget(
                       [e1 EXCEPT !.waitingForPrefetchOnTab = FALSE])
              ELSE e1
        e3 == [e2 EXCEPT !.waitingForPrefetchCursorPrediction = FALSE]
        comp == e3.prefetchedCompletions[1]
        oldLines == SubSeq(e3.bufLines, comp.StartLine,
                           IF comp.EndLineInc < Len(e3.bufLines)
                           THEN comp.EndLineInc ELSE Len(e3.bufLines))
        targetLine == FindFirstChangedLine(oldLines, comp.Lines, comp.StartLine - 1)
    IN IF ~e2.waitingForPrefetchCursorPrediction THEN e2
       ELSE IF Len(e3.prefetchedCompletions) > 0 /\ e3.n
       THEN IF targetLine > 0 /\ e3.bufRow # targetLine
            THEN OnCursorPredictionReady(
                     [e3 EXCEPT !.cursorTarget = <<Target(targetLine, FALSE)>>,
                                !.state = stateHasCursorTarget],
                     targetLine)
            ELSE e3
       ELSE e3

\* case EventPrefetchError of handleEvent
\* the PrefetchError case that leaves the deferred Tab waiting
handlePrefetchError_KeepsWaiting(e, err) ==
    [e EXCEPT !.prefetchInProgress = FALSE]

handlePrefetchError(e, err) ==
    LET e1 == [e EXCEPT !.prefetchInProgress = FALSE]
    IN IF e1.waitingForPrefetchOnTab
       THEN handleDeferredCursorTarget([e1 EXCEPT !.waitingForPrefetchOnTab = FALSE])
       ELSE e1


(***************************************************************************)
(* Initial state: NewEngine followed by Start.                             *)
(***************************************************************************)
Configs == [Enabled : BOOLEAN, AutoAdvance : BOOLEAN]

EngineInit ==
    /\ state = stateIdle
    /\ stopped = FALSE
    /\ n = FALSE
    /\ mainCtxDone = FALSE
    /\ currentCancel = 0
    /\ prefetchCancel = 0
    /\ idleTimer = 0
    /\ textChangeTimer = 0
    /\ eventChan = <<>>
    /\ completions = <<>>
    /\ applyBatch = <<>>
    /\ cursorTarget = <<>>
    /\ stagedCompletion = <<>>
    /\ prefetchedCompletions = <<>>
    /\ prefetchedCursorTarget = <<>>
    /\ prefetchInProgress = FALSE
    /\ waitingForPrefetchOnTab = FALSE
    /\ waitingForPrefetchCursorPrediction = FALSE
    /\ reqs = <<>>
    /\ pfs = <<>>
    /\ edLines = [i \in Rows |-> 0]
    /\ edRow = 1
    /\ bufLines = <<>>
    /\ bufRow = 0
    /\ ui = NoUI

(***************************************************************************)
(* Steps of the environment: the editor, the timers, the goroutines.       *)
(***************************************************************************)
NoLoop == [phase |-> "off"]

\* the channel has room: its capacity is MaxQueue, and LoopQueue in SpecLoop
Room == Len(eventChan) < (IF lp = NoLoop THEN MaxQueue ELSE LoopQueue)

Post(ev, data) == eventChan' = Append(eventChan, [Type |-> ev, Data |-> data])

SetNvim ==
    /\ ~stopped
    /\ ~n
    /\ n' = TRUE
    /\ UNCHANGED <<state, stopped, mainCtxDone, currentCancel, prefetchCancel,
                   idleTimer, textChangeTimer, eventChan, completions, applyBatch,
                   cursorTarget, stagedCompletion, prefetchedCompletions,
                   prefetchedCursorTarget, prefetchInProgress,
                   waitingForPrefetchOnTab, waitingForPrefetchCursorPrediction,
                   config, reqs, pfs, edLines, edRow, bufLines, bufRow, ui, sg, pa, fs, mu, lp, st, restVars>>

\* the handler SetNvim registers for "cursortab_event": the editor reports what
\* the user did; a cursor move has put the cursor on some row
EditorPost(ev) ==
    /\ n
    /\ ~stopped
    /\ ~mainCtxDone
    /\ Room
    /\ Post(ev, "")
    /\ IF ev = EventCursorMovedNormal
       THEN \E r \in Rows : edRow' = r
       ELSE edRow' = edRow
    /\ edLines' = edLines
    /\ UNCHANGED <<state, stopped, n, mainCtxDone, currentCancel, prefetchCancel,
                   idleTimer, textChangeTimer, completions, applyBatch,
                   cursorTarget, stagedCompletion, prefetchedCompletions,
                   prefetchedCursorTarget, prefetchInProgress,
                   waitingForPrefetchOnTab, waitingForPrefetchCursorPrediction,
                   config, reqs, pfs, bufLines, bufRow, ui, sg, pa, fs, mu, lp, st, restVars>>

\* the time.AfterFunc callback of startIdleTimer
IdleTimerFire ==
    /\ idleTimer > 0
    /\ ~stopped
    /\ Room
    /\ Post(EventIdleTimeout, "")
    /\ idleTimer' = idleTimer - 1
    /\ UNCHANGED <<state, stopped, n, mainCtxDone, currentCancel, prefetchCancel,
                   textChangeTimer, completions, applyBatch,
                   cursorTarget, stagedCompletion, prefetchedCompletions,
                   prefetchedCursorTarget, prefetchInProgress,
                   waitingForPrefetchOnTab, waitingForPrefetchCursorPrediction,
                   config, reqs, pfs, edLines, edRow, bufLines, bufRow, ui, sg, pa, fs, mu, lp, st, restVars>>

\* the time.AfterFunc callback of startTextChangeTimer
TextChangeTimerFire ==
    /\ textChangeTimer > 0
    /\ ~stopped
    /\ Room
    /\ Post(EventTextChangeTimeout, "")
    /\ textChangeTimer' = textChangeTimer - 1
    /\ UNCHANGED <<state, stopped, n, mainCtxDone, currentCancel, prefetchCancel,
                   idleTimer, completions, applyBatch,
                   cursorTarget, stagedCompletion, prefetchedCompletions,
                   prefetchedCursorTarget, prefetchInProgress,
                   waitingForPrefetchOnTab, waitingForPrefetchCursorPrediction,
                   config, reqs, pfs, edLines, edRow, bufLines, bufRow, ui, sg, pa, fs, mu, lp, st, restVars>>


\* outcomes of provider.GetCompletion for a worker: a result or an error at
\* any time, context.Canceled only once its context was cancelled
Outcomes(w) == IF w.cancelled THEN {"ok", "err", "errCanceled"} ELSE {"ok", "err"}

\* the event the goroutine's select sends for an outcome; a result travels in
\* the event unread until the handler takes it, so its value is drawn there
WorkerEvent(outcome, readyType, errorType) ==
    IF outcome = "ok"
    THEN [Type |-> readyType, Data |-> "result"]
    ELSE [Type |-> errorType,
          Data |-> IF outcome = "errCanceled" THEN "canceled" ELSE "transient"]

\* AfterPost without the return that ends the goroutine: it reaches the second
\* select and sends again
AfterPost_NoReturn(w) ==
    [w EXCEPT !.posts = @ + 1, !.postedAfterCancel = w.cancelled]

AfterPost(w) ==
    [w EXCEPT !.phase = "posted", !.posts = @ + 1,
              !.postedAfterCancel = w.cancelled]

\* the goroutine of requestCompletion: provider.GetCompletion returns and the
\* select sends the event
RequestPosts(i) ==
    /\ reqs[i].phase = "running"
    /\ ~mainCtxDone
    /\ Room
    /\ \E outcome \in Outcomes(reqs[i]) :
          eventChan' = Append(eventChan,
              WorkerEvent(outcome, EventCompletionReady, EventCompletionError))
    /\ reqs' = [reqs EXCEPT ![i] = AfterPost(@)]
    /\ UNCHANGED <<state, stopped, n, mainCtxDone, currentCancel, prefetchCancel,
                   idleTimer, textChangeTimer, completions, applyBatch,
                   cursorTarget, stagedCompletion, prefetchedCompletions,
                   prefetchedCursorTarget, prefetchInProgress,
                   waitingForPrefetchOnTab, waitingForPrefetchCursorPrediction,
                   config, pfs, edLines, edRow, bufLines, bufRow, ui, sg, pa, fs, mu, lp, st, restVars>>

\* the select of that goroutine takes <-e.mainCtx.Done()
RequestExits(i) ==
    /\ reqs[i].phase = "running"
    /\ mainCtxDone
    /\ reqs' = [reqs EXCEPT ![i].phase = "exited"]
    /\ UNCHANGED <<state, stopped, n, mainCtxDone, currentCancel, prefetchCancel,
                   idleTimer, textChangeTimer, eventChan, completions, applyBatch,
                   cursorTarget, stagedCompletion, prefetchedCompletions,
                   prefetchedCursorTarget, prefetchInProgress,
                   waitingForPrefetchOnTab, waitingForPrefetchCursorPrediction,
                   config, pfs, edLines, edRow, bufLines, bufRow, ui, sg, pa, fs, mu, lp, st, restVars>>

\* the same steps of the goroutine of requestPrefetch
PrefetchPosts(i) ==
    /\ pfs[i].phase = "running"
    /\ ~mainCtxDone
    /\ Room
    /\ \E outcome \in Outcomes(pfs[i]) :
          eventChan' = Append(eventChan,
              WorkerEvent(outcome, EventPrefetchReady, EventPrefetchError))
    /\ pfs' = [pfs EXCEPT ![i] = AfterPost(@)]
    /\ UNCHANGED <<state, stopped, n, mainCtxDone, currentCancel, prefetchCancel,
                   idleTimer, textChangeTimer, completions, applyBatch,
                   cursorTarget, stagedCompletion, prefetchedCompletions,
                   prefetchedCursorTarget, prefetchInProgress,
                   waitingForPrefetchOnTab, waitingForPrefetchCursorPrediction,
                   config, reqs, edLines, edRow, bufLines, bufRow, ui, sg, pa, fs, mu, lp, st, restVars>>

PrefetchExits(i) ==
    /\ pfs[i].phase = "running"
    /\ mainCtxDone
    /\ pfs' = [pfs EXCEPT ![i].phase = "exited"]
    /\ UNCHANGED <<state, stopped, n, mainCtxDone, currentCancel, prefetchCancel,
                   idleTimer, textChangeTimer, eventChan, completions, applyBatch,
                   cursorTarget, stagedCompletion, prefetchedCompletions,
                   prefetchedCursorTarget, prefetchInProgress,
                   waitingForPrefetchOnTab, waitingForPrefetchCursorPrediction,
                   config, reqs, edLines, edRow, bufLines, bufRow, ui, sg, pa, fs, mu, lp, st, restVars>>

(***************************************************************************)
(* The event loop: one step takes the head of the channel and runs         *)
(* handleEvent on it under the lock.                                       *)
(***************************************************************************)
Dequeued == [Cur EXCEPT !.eventChan = Tail(eventChan)]

\* the guard of eventLoop and handleEvent, for an event of type ev
Receives(ev) ==
    /\ ~stopped
    /\ eventChan # <<>>
    /\ Head(eventChan).Type = ev

\* install the handler's result; the model issues at most MaxReqs requests and
\* MaxPrefetch prefetches
Step(e) ==
    /\ Len(e.reqs) <= MaxReqs
    /\ Len(e.pfs) <= MaxPrefetch
    /\ Install(e)
    /\ UNCHANGED <<sg, pa, fs, mu, lp, st, restVars>>

HandleEsc == Receives(EventEsc) /\ Step(handleEsc(Dequeued))

HandleTextChanged ==
    Receives(EventTextChanged)
        /\ Step(handleTextChange(Dequeued))

HandleTextChangeTimeout ==
    Receives(EventTextChangeTimeout)
        /\ Step(handleTextChangeTimeout(Dequeued))

HandleCursorMovedNormal ==
    Receives(EventCursorMovedNormal)
        /\ Step(handleCursorMoveNormal(Dequeued))

HandleInsertEnter ==
    Receives(EventInsertEnter)
        /\ Step(handleInsertEnter(Dequeued))

HandleInsertLeave ==
    Receives(EventInsertLeave)
        /\ Step(handleInsertLeave(Dequeued))

HandleTab == Receives(EventTab) /\ Step(handleTab(Dequeued))

HandleIdleTimeout ==
    Receives(EventIdleTimeout)
        /\ Step(handleIdleTimeout(Dequeued))

HandleCompletionReady ==
    /\ Receives(EventCompletionReady)
    /\ \E response \in Responses :
          /\ NearestFirst(Dequeued.bufRow, response)
          /\ Step(handleCompletionReady(Dequeued, response))

HandleCompletionError ==
    Receives(EventCompletionError)
        /\ Step(handleCompletionError(Dequeued, Head(eventChan).Data))

HandlePrefetchReady ==
    /\ Receives(EventPrefetchReady)
    /\ \E response \in PlainResponses :
          Step(handlePrefetchReady(Dequeued, response))

HandlePrefetchError ==
    Receives(EventPrefetchError)
        /\ Step(handlePrefetchError(Dequeued, Head(eventChan).Data))

\* cancelling mainCtx cancels every context derived from it
CancelAll(ws) == [i \in 1..Len(ws) |-> Cancelled(ws[i])]

Stop ==
    /\ ~stopped
    /\ LET e1 == [Cur EXCEPT !.stopped = TRUE, !.mainCtxDone = TRUE,
                             !.reqs = CancelAll(@), !.pfs = CancelAll(@)]
           e2 == CancelPrefetch(CancelCurrent(e1))
           e3 == clearStateUnsafe(stopTextChangeTimer(stopIdleTimer(e2)))
       IN Install(e3)
    /\ UNCHANGED <<sg, pa, fs, mu, lp, st, restVars>>

NoStaging == [phase |-> "off"]

NoPartial == [phase |-> "off"]

NoFiles == [phase |-> "off"]

NoStager == [phase |-> "off"]

NoRace == [phase |-> "off"]

NoAccept == [phase |-> "off"]

NoClear == [phase |-> "off"]

NoTruncate == [phase |-> "off"]

\* the specifications added last are at rest
OthersOff ==
    /\ rc = NoRace
    /\ ac = NoAccept
    /\ cl = NoClear
    /\ tc = NoTruncate

Init ==
    /\ OthersOff
    /\ EngineInit
    /\ config \in Configs
    /\ mu = "free"
    /\ sg = NoStaging
    /\ pa = NoPartial
    /\ fs = NoFiles
    /\ lp = NoLoop
    /\ st = NoStager

Next ==
    \/ SetNvim
    \/ \E ev \in EditorEvents : EditorPost(ev)
    \/ IdleTimerFire
    \/ TextChangeTimerFire
    \/ \E i \in 1..Len(reqs) : RequestPosts(i)
    \/ \E i \in 1..Len(reqs) : RequestExits(i)
    \/ \E i \in 1..Len(pfs) : PrefetchPosts(i)
    \/ \E i \in 1..Len(pfs) : PrefetchExits(i)
    \/ HandleEsc
    \/ HandleTextChanged
    \/ HandleTextChangeTimeout
    \/ HandleCursorMovedNormal
    \/ HandleInsertEnter
    \/ HandleInsertLeave
    \/ HandleTab
    \/ HandleIdleTimeout
    \/ HandleCompletionReady
    \/ HandleCompletionError
    \/ HandlePrefetchReady
    \/ HandlePrefetchError
    \/ Stop

Spec == Init /\ [][Next]_vars


(***************************************************************************)
(* Properties of the engine (Spec).                                        *)
(***************************************************************************)
InFlight(w) == ~Finished(w)

RejectStep ==
    HandleEsc \/ HandleCursorMovedNormal \/ HandleInsertLeave \/ HandleTextChanged

\* C2 (as claimed): for each main completion request at most one
\* CompletionReady or CompletionError is posted, and none is posted after the
\* request has been cancelled.
C2_OnePostNeverAfterCancel ==
    \A i \in 1..Len(reqs) :
        reqs[i].posts <= 1 /\ ~reqs[i].postedAfterCancel

\* C2 (amended): for each main completion request at most one CompletionReady
\* or CompletionError is posted; a cancelled request may still post that one
\* event.
C2_AtMostOnePost ==
    \A i \in 1..Len(reqs) : reqs[i].posts <= 1

\* a request that posted its event after it had been cancelled
C2_PostedAfterCancel ==
    \E i \in 1..Len(reqs) :
        reqs[i].phase = "posted" /\ reqs[i].posts = 1 /\ reqs[i].postedAfterCancel

\* C3: after the engine handled a reject (Esc, CursorMovedNormal, InsertLeave),
\* a TextChanged or Stop, every main request issued earlier is cancelled: none
\* is in flight uncancelled.
C3_RejectCancelsEveryRequest ==
    [][(RejectStep \/ Stop) =>
          \A i \in 1..Len(reqs') : InFlight(reqs'[i]) => reqs'[i].cancelled]_vars

C5_TransientErrorReturnsToIdle ==
    [][(/\ HandleCompletionError
        /\ Head(eventChan).Data = "transient"
        /\ state = statePendingCompletion
        /\ Len(reqs) = 1) => state' = stateIdle]_vars


\* the stage the engine shows and the one after it
CurrentStage == stagedCompletion[1].Stages[stagedCompletion[1].CurrentIdx + 1]

NextStage == stagedCompletion[1].Stages[stagedCompletion[1].CurrentIdx + 2]

OnLastStage ==
    /\ stagedCompletion # <<>>
    /\ stagedCompletion[1].CurrentIdx + 1 = Len(stagedCompletion[1].Stages)

Applied(c) == SubSeq(edLines', c.StartLine, c.EndLineInc) = c.Lines

\* C6: on Tab in HasCompletion while a further stage remains, the engine
\* applies the current stage, increases current_idx by exactly one, keeps the
\* stages and enters HasCursorTarget with the jump indicator at the next
\* stage's first buffer line.
C6_AcceptAdvancesToNextStage ==
    [][(/\ HandleTab
        /\ config.Enabled
        /\ state = stateHasCompletion
        /\ stagedCompletion # <<>>
        /\ stagedCompletion[1].CurrentIdx + 1 < Len(stagedCompletion[1].Stages))
       => /\ Applied(CurrentStage.Completion)
          /\ stagedCompletion' # <<>>
          /\ stagedCompletion'[1].CurrentIdx = stagedCompletion[1].CurrentIdx + 1
          /\ stagedCompletion'[1].Stages = stagedCompletion[1].Stages
          /\ state' = stateHasCursorTarget
          /\ ui' = [kind |-> "cursor_target",
                    line |-> NextStage.Completion.StartLine]]_vars

\* C7: on Tab in HasCursorTarget (no stage pending) the cursor moves to the
\* target line and the first applicable outcome occurs: a ready prefetch is
\* shown as HasCompletion; else an in-flight prefetch is waited for
\* (waitingForTab); else, with should_retrigger, a completion request is issued
\* and the engine is in PendingCompletion; else the engine is Idle.
C7_AcceptCursorTargetOutcomes ==
    [][(/\ HandleTab
        /\ config.Enabled
        /\ state = stateHasCursorTarget
        /\ cursorTarget # <<>>
        /\ stagedCompletion = <<>>)
       => /\ edRow' = cursorTarget[1].LineNumber
          /\ IF Len(prefetchedCompletions) > 0
             THEN state' = stateHasCompletion
             ELSE IF prefetchInProgress
             THEN waitingForPrefetchOnTab' /\ Len(reqs') = Len(reqs)
             ELSE IF cursorTarget[1].ShouldRetrigger
             THEN Len(reqs') = Len(reqs) + 1 /\ state' = statePendingCompletion
             ELSE state' = stateIdle /\ Len(reqs') = Len(reqs)]_vars

\* C8: a PrefetchReady that arrives while the engine waits for the prefetch's
\* cursor prediction but shows a completion does not interrupt it: the state
\* stays HasCompletion, the display is unchanged and the prefetch is ready.
C8_PrefetchReadyDoesNotInterrupt ==
    [][(/\ HandlePrefetchReady
        /\ config.Enabled
        /\ waitingForPrefetchCursorPrediction
        /\ state = stateHasCompletion)
       => /\ state' = stateHasCompletion
          /\ ui' = ui
          /\ completions' = completions
          /\ ~prefetchInProgress'
          /\ ~waitingForPrefetchCursorPrediction']_vars

\* C9: accepting the last stage (its cursor target asks to retrigger) while a
\* prefetch is ready whose change does not overlap the stage applies the
\* stage, builds the staged completion from the prefetch, shows it
\* (HasCompletion) and resets the prefetch to none.
C9_AcceptLastStageUsesPrefetch ==
    [][(/\ HandleTab
        /\ config.Enabled
        /\ state = stateHasCompletion
        /\ OnLastStage
        /\ cursorTarget # <<>> /\ cursorTarget[1].ShouldRetrigger
        /\ Len(prefetchedCompletions) > 0
        /\ ~prefetchInProgress
        /\ prefetchedCompletions[1].StartLine
               # CurrentStage.Completion.StartLine)
       => /\ Applied(CurrentStage.Completion)
          /\ stagedCompletion' # <<>>
          /\ state' = stateHasCompletion
          /\ completions' = prefetchedCompletions
          /\ prefetchedCompletions' = <<>>
          /\ ~prefetchInProgress'
          /\ Len(pfs') = Len(pfs)]_vars

\* C10: accepting the last stage (should_retrigger) while a prefetch is in
\* flight starts no request and no prefetch: the engine waits for the prefetch
\* (waitingForTab) in Idle with the display cleared.
C10_AcceptLastStageWaitsForPrefetch ==
    [][(/\ HandleTab
        /\ config.Enabled
        /\ state = stateHasCompletion
        /\ OnLastStage
        /\ cursorTarget # <<>> /\ cursorTarget[1].ShouldRetrigger
        /\ prefetchInProgress)
       => /\ Len(reqs') = Len(reqs)
          /\ Len(pfs') = Len(pfs)
          /\ \A i \in 1..Len(pfs) : pfs'[i].cancelled = pfs[i].cancelled
          /\ waitingForPrefetchOnTab'
          /\ state' = stateIdle
          /\ ui' = NoUI]_vars


\* C11: accepting the last stage (should_retrigger) while a prefetch is ready
\* whose completion overlaps the stage just applied discards the prefetched
\* completions and requests a fresh prefetch.
C11_AcceptLastStageDropsOverlappingPrefetch ==
    [][(/\ HandleTab
        /\ config.Enabled
        /\ state = stateHasCompletion
        /\ OnLastStage
        /\ cursorTarget # <<>> /\ cursorTarget[1].ShouldRetrigger
        /\ Len(prefetchedCompletions) > 0
        /\ ~prefetchInProgress
        /\ prefetchedCompletions[1].StartLine
               = CurrentStage.Completion.StartLine)
       => /\ prefetchedCompletions' = <<>>
          /\ Len(pfs') = Len(pfs) + 1
          /\ prefetchInProgress']_vars

\* the first buffer line a completion actually changes, 0 if none
FirstChangedLine(comp) ==
    FindFirstChangedLine(
        SubSeq(bufLines, comp.StartLine,
               IF comp.EndLineInc < Len(bufLines) THEN comp.EndLineInc
               ELSE Len(bufLines)),
        comp.Lines, comp.StartLine - 1)

Near(row, line) ==
    (IF row >= line THEN row - line ELSE line - row) <= DistThreshold

\* C12: a PrefetchReady that arrives in HasCursorTarget (no Tab waiting for
\* it) with a completion that changes a line: when that line is within the
\* proximity threshold of the cursor row the prefetch is shown directly
\* (HasCompletion, prefetch consumed); otherwise a jump indicator to that line
\* is shown (HasCursorTarget) and the prefetch stays ready.
C12_PrefetchReadyInCursorTarget ==
    [][\A response \in PlainResponses :
          (/\ Receives(EventPrefetchReady)
           /\ Step(handlePrefetchReady(Dequeued, response))
           /\ config.Enabled
           /\ n
           /\ state = stateHasCursorTarget
           /\ ~waitingForPrefetchOnTab
           /\ Len(response.Completions) > 0
           /\ FirstChangedLine(response.Completions[1]) > 0)
          => IF Near(bufRow, FirstChangedLine(response.Completions[1]))
             THEN /\ state' = stateHasCompletion
                  /\ completions' = response.Completions
                  /\ prefetchedCompletions' = <<>>
                  /\ ~prefetchInProgress'
             ELSE /\ state' = stateHasCursorTarget
                  /\ ui' = [kind |-> "cursor_target",
                            line |-> FirstChangedLine(response.Completions[1])]
                  /\ prefetchedCompletions' = response.Completions
                  /\ ~prefetchInProgress']_vars

\* C14: handling IdleTimeout starts a completion request and moves to
\* PendingCompletion exactly when the state is Idle; in every other state it
\* starts no request and leaves the state as it is.
C14_IdleTimeoutRequestsWhenIdle ==
    [][HandleIdleTimeout
          => IF state = stateIdle
             THEN /\ state' = statePendingCompletion
                  /\ reqs' = Append(reqs, NewWorker)
                  /\ currentCancel' = Len(reqs')
             ELSE /\ state' = state
                  /\ reqs' = reqs]_vars

\* a request is pending while the debounce timer is still armed: it was the
\* IdleTimeout, not the debounce timeout, that started it
C14_IdleRequestPending ==
    /\ state = statePendingCompletion
    /\ currentCancel # 0
    /\ textChangeTimer > 0
    /\ Len(reqs) = 1

\* C15: handling TextChanged, in whatever state, clears the shown completion
\* or jump indicator and leaves exactly one debounce timer armed, the one
\* armed before having been stopped; at no time is more than one armed.
C15_TextChangedRearmsDebounce ==
    /\ [](textChangeTimer <= 1)
    /\ [][HandleTextChanged
             => /\ ui' = NoUI
                /\ completions' = <<>>
                /\ cursorTarget' = <<>>
                /\ state' = stateIdle
                /\ textChangeTimer' = 1]_vars

\* the debounce timer is armed again after a completion had been delivered
C15_RearmedAfterCompletion ==
    /\ textChangeTimer = 1
    /\ state = stateIdle
    /\ ui = NoUI
    /\ Len(reqs) = 1
    /\ reqs[1].phase = "posted"
    /\ eventChan = <<>>

\* C17: when Tab accepts a shown, unstaged completion that carries a cursor
\* target, the target is evaluated against the cursor row: with cursor
\* prediction disabled, or with the row within the proximity threshold of the
\* target line, no jump indicator is shown and the state becomes Idle;
\* otherwise the state becomes HasCursorTarget and the indicator is shown at
\* the target line.
C17_CursorTargetEvaluation ==
    [][(/\ HandleTab
        /\ n
        /\ state = stateHasCompletion
        /\ stagedCompletion = <<>>
        /\ cursorTarget # <<>>)
          => IF \/ ~config.Enabled
                \/ Near(bufRow', cursorTarget[1].LineNumber)
             THEN /\ state' = stateIdle
                  /\ ui'.kind # "cursor_target"
             ELSE /\ state' = stateHasCursorTarget
                  /\ ui' = [kind |-> "cursor_target",
                            line |-> cursorTarget[1].LineNumber]]_vars

\* C29: at most one main completion request is in flight uncancelled, and a
\* handler that issues a new main request leaves every request issued before
\* it cancelled or finished
C29_OneMainRequestInFlight ==
    /\ [](Cardinality({ i \in 1..Len(reqs) :
                           InFlight(reqs[i]) /\ ~reqs[i].cancelled }) <= 1)
    /\ [][Len(reqs') > Len(reqs)
            => \A i \in 1..Len(reqs) :
                   ~(InFlight(reqs'[i]) /\ ~reqs'[i].cancelled)]_vars

\* C30: a PrefetchError carrying context.Canceled, which only a cancelled
\* prefetch produces, leaves the prefetched data and the prefetch sub-state as
\* they were
C30_StalePrefetchIgnored ==
    [][(HandlePrefetchError /\ Head(eventChan).Data = "canceled")
          => UNCHANGED <<prefetchedCompletions, prefetchedCursorTarget,
                         prefetchInProgress, waitingForPrefetchOnTab,
                         waitingForPrefetchCursorPrediction, state, ui>>]_vars

(***************************************************************************)
(* The diff and staging pipeline (server/text).                            *)
(*                                                                         *)
(* A line of text is a record: line i of the old text, that line with text *)
(* appended to it, that line rewritten from scratch, a new line inserted   *)
(* after old line i, or the empty line.  Lines of different kind or index  *)
(* share no character.                                                     *)
(***************************************************************************)
\* lines of the old text
OldLen == 6
\* edits the provider makes to the old text
MaxEdits == 3

\* similarityThreshold of handleModifications, in percent
similarityThreshold == 30

EmptyLine == [kind |-> "empty", i |-> 0]

OldLine(i) == [kind |-> "old", i |-> i]

Appended(i) == [kind |-> "appended", i |-> i]

Rewritten(i) == [kind |-> "rewritten", i |-> i]

Fresh(i) == [kind |-> "fresh", i |-> i]

Max(a, b) == IF a > b THEN a ELSE b

RECURSIVE SortedSeq(_)
\* the elements of a set of numbers in ascending order (sort.Ints)
SortedSeq(S) ==
    IF S = {} THEN <<>>
    ELSE LET m == CHOOSE x \in S : \A y \in S : x <= y
         IN <<m>> \o SortedSeq(S \ {m})

Elems(q) == { q[i] : i \in 1..Len(q) }

\* the longest prefix of q none of whose lines occurs in r
RECURSIVE Unmatched(_, _)
Unmatched(q, r) ==
    IF q = <<>> \/ Head(q) \in Elems(r) THEN <<>>
    ELSE <<Head(q)>> \o Unmatched(Tail(q), r)

RECURSIVE CommonPrefix(_, _)
CommonPrefix(q, r) ==
    IF q = <<>> \/ r = <<>> \/ Head(q) # Head(r) THEN <<>>
    ELSE <<Head(q)>> \o CommonPrefix(Tail(q), Tail(r))

Drop(q, k) == SubSeq(q, k + 1, Len(q))

\* the line-level diff diffmatchpatch returns (DiffLinesToChars, DiffMain,
\* DiffCharsToLines) for texts whose common lines are distinct and in the same
\* order: runs of equal lines, and between them the deleted lines followed by
\* the inserted ones
RECURSIVE DiffMain(_, _)
DiffMain(text1, text2) ==
    IF text1 = <<>> /\ text2 = <<>> THEN <<>>
    ELSE LET eq == CommonPrefix(text1, text2)
             del == Unmatched(text1, text2)
             ins == Unmatched(text2, text1)
         IN IF eq # <<>>
            THEN <<[Type |-> "equal", Lines |-> eq]>>
                     \o DiffMain(Drop(text1, Len(eq)), Drop(text2, Len(eq)))
            ELSE (IF del # <<>> THEN <<[Type |-> "delete", Lines |-> del]>> ELSE <<>>)
                 \o (IF ins # <<>> THEN <<[Type |-> "insert", Lines |-> ins]>> ELSE <<>>)
                 \o DiffMain(Drop(text1, Len(del)), Drop(text2, Len(ins)))

\* a LineDiff
LineDiff(type, lineNum, content, oldContent) ==
    [Type |-> type, LineNumber |-> lineNum, Content |-> <<content>>,
     OldContent |-> oldContent, GroupLines |-> <<>>, StartLine |-> 0, EndLine |-> 0]

\* result.Changes[k] = v
Put(changes, k, v) ==
    [x \in (DOMAIN changes) \cup {k} |-> IF x = k THEN v ELSE changes[x]]

NoChanges == [x \in {} |-> EmptyLine]

\* lineSimilarity, in percent: the character-level diff of a line and the same
\* line with text appended, or with a few characters replaced or removed, is
\* mostly equal text, that of two lines without a common character has none
lineSimilarity(line1, line2) ==
    IF line1 = EmptyLine /\ line2 = EmptyLine THEN 100
    ELSE IF line1 = EmptyLine \/ line2 = EmptyLine THEN 0
    ELSE IF line1 = line2 THEN 100
    ELSE IF /\ line1.i = line2.i
            /\ \E k \in {"appended", "replaced", "trimmed"} :
                   {line1.kind, line2.kind} = {"old", k}
    THEN 80
    ELSE 0

\* categorizeLineChangeWithColumns: text appended to the old line is
\* append_chars, a line without a common character a modification
categorizeLineChangeWithColumns(oldLine, newLine) ==
    IF oldLine.kind = "old" /\ newLine = Appended(oldLine.i)
    THEN "append_chars"
    ELSE "modification"

\* findBestMatch: index of the most similar unused inserted line, 0 if none
\* is similar at all
findBestMatch(deletedLine, insertedLines, usedInserts) ==
    LET cand == { i \in 1..Len(insertedLines) :
                    /\ i \notin usedInserts
                    /\ lineSimilarity(deletedLine, insertedLines[i]) > 0 }
        best == CHOOSE i \in cand :
                    \A j \in cand :
                        \/ lineSimilarity(deletedLine, insertedLines[i])
                               > lineSimilarity(deletedLine, insertedLines[j])
                        \/ /\ lineSimilarity(deletedLine, insertedLines[i])
                                  = lineSimilarity(deletedLine, insertedLines[j])
                           /\ i <= j
    IN IF cand = {} THEN [idx |-> 0, similarity |-> 0]
       ELSE [idx |-> best,
             similarity |-> lineSimilarity(deletedLine, insertedLines[best])]

\* handleModifications, equal number of lines: pair line j with line j
RECURSIVE pairPositionally(_, _, _, _, _, _)
pairPositionally(j, deletedLines, insertedLines, oldLineStart, newLineStart, changes) ==
    IF j > Len(deletedLines) THEN changes
    ELSE LET lineNum == oldLineStart + j
             d == deletedLines[j]
             i == insertedLines[j]
             next ==
                 IF d # EmptyLine /\ i # EmptyLine
                 THEN Put(changes, lineNum,
                          LineDiff(categorizeLineChangeWithColumns(d, i), lineNum, i, d))
                 ELSE IF d # EmptyLine
                 THEN Put(changes, lineNum, LineDiff("deletion", lineNum, d, EmptyLine))
                 ELSE IF i # EmptyLine
                 THEN Put(changes, newLineStart + j,
                          LineDiff("addition", newLineStart + j, i, EmptyLine))
                 ELSE Put(changes, lineNum, LineDiff("modification", lineNum, i, d))
         IN pairPositionally(j + 1, deletedLines, insertedLines,
                             oldLineStart, newLineStart, next)

\* first pass: matches[i] is the inserted line deleted line i is matched
\* with, 0 if none
RECURSIVE matchSimilar(_, _, _, _, _)
matchSimilar(i, deletedLines, insertedLines, usedInserts, matches) ==
    IF i > Len(deletedLines) THEN matches
    ELSE LET m == findBestMatch(deletedLines[i], insertedLines, usedInserts)
             hit == /\ deletedLines[i] # EmptyLine
                    /\ m.idx # 0
                    /\ m.similarity >= similarityThreshold
         IN matchSimilar(i + 1, deletedLines, insertedLines,
                         IF hit THEN usedInserts \cup {m.idx} ELSE usedInserts,
                         Append(matches, IF hit THEN m.idx ELSE 0))

\* second pass: matched pairs, keyed by the old line number
RECURSIVE putMatched(_, _, _, _, _, _)
putMatched(i, deletedLines, insertedLines, matches, oldLineStart, changes) ==
    IF i > Len(deletedLines) THEN changes
    ELSE putMatched(i + 1, deletedLines, insertedLines, matches, oldLineStart,
             IF matches[i] = 0 THEN changes
             ELSE Put(changes, oldLineStart + i,
                      LineDiff(categorizeLineChangeWithColumns(
                                   deletedLines[i], insertedLines[matches[i]]),
                               oldLineStart + i, insertedLines[matches[i]],
                               deletedLines[i])))

\* the first line number from lineNum on that result.Changes does not hold
RECURSIVE nextFree(_, _)
nextFree(lineNum, changes) ==
    IF lineNum \notin DOMAIN changes THEN lineNum ELSE nextFree(lineNum + 1, changes)

\* third pass: unmatched deletions, keyed from the new line number on
RECURSIVE putUnmatchedDeletions(_, _, _, _, _)
putUnmatchedDeletions(i, deletedLines, matches, newLineStart, changes) ==
    IF i > Len(deletedLines) THEN changes
    ELSE putUnmatchedDeletions(i + 1, deletedLines, matches, newLineStart,
             IF matches[i] # 0 THEN changes
             ELSE LET lineNum == nextFree(newLineStart + i, changes)
                  IN Put(changes, lineNum,
                         LineDiff("deletion", lineNum, deletedLines[i], EmptyLine)))

\* fourth pass: unmatched additions, keyed by the new line number
RECURSIVE putUnmatchedAdditions(_, _, _, _, _)
putUnmatchedAdditions(i, insertedLines, usedInserts, newLineStart, changes) ==
    IF i > Len(insertedLines) THEN changes
    ELSE putUnmatchedAdditions(i + 1, insertedLines, usedInserts, newLineStart,
             IF i \in usedInserts THEN changes
             ELSE Put(changes, newLineStart + i,
                      LineDiff("addition", newLineStart + i, insertedLines[i], EmptyLine)))

handleModifications(deletedLines, insertedLines, oldLineStart, newLineStart, changes) ==
    IF Len(deletedLines) = Len(insertedLines)
    THEN pairPositionally(1, deletedLines, insertedLines,
                          oldLineStart, newLineStart, changes)
    ELSE LET matches == matchSimilar(1, deletedLines, insertedLines, {}, <<>>)
             usedInserts == { matches[i] : i \in 1..Len(matches) } \ {0}
             c2 == putMatched(1, deletedLines, insertedLines, matches,
                              oldLineStart, changes)
             c3 == putUnmatchedDeletions(1, deletedLines, matches, newLineStart, c2)
         IN putUnmatchedAdditions(1, insertedLines, usedInserts, newLineStart, c3)

\* the lines of a pure deletion or pure insertion hunk, keyed from start + 1
RECURSIVE putLines(_, _, _, _, _)
putLines(j, lines, type, start, changes) ==
    IF j > Len(lines) THEN changes
    ELSE putLines(j + 1, lines, type, start,
                  Put(changes, start + j, LineDiff(type, start + j, lines[j], EmptyLine)))

RECURSIVE processLineDiffs(_, _, _, _, _)
processLineDiffs(lineDiffs, i, oldLineNum, newLineNum, changes) ==
    IF i > Len(lineDiffs) THEN changes
    ELSE LET diff == lineDiffs[i]
             lines == diff.Lines
         IN IF diff.Type = "equal"
            THEN processLineDiffs(lineDiffs, i + 1, oldLineNum + Len(lines),
                                  newLineNum + Len(lines), changes)
            ELSE IF diff.Type = "delete"
            THEN IF i + 1 <= Len(lineDiffs) /\ lineDiffs[i + 1].Type = "insert"
                 THEN processLineDiffs(lineDiffs, i + 2,
                          oldLineNum + Len(lines),
                          newLineNum + Len(lineDiffs[i + 1].Lines),
                          handleModifications(lines, lineDiffs[i + 1].Lines,
                                              oldLineNum, newLineNum, changes))
                 ELSE processLineDiffs(lineDiffs, i + 1, oldLineNum + Len(lines),
                          newLineNum,
                          putLines(1, lines, "deletion", oldLineNum, changes))
            ELSE processLineDiffs(lineDiffs, i + 1, oldLineNum,
                     newLineNum + Len(lines),
                     putLines(1, lines, "addition", newLineNum, changes))


IsGroup(change) == change.Type \in {"modification_group", "addition_group"}

\* createGroup: one group change for the consecutive lineNumbers, stored under
\* the first of them
createGroup(changes, lineNumbers, groupType, groupedChanges) ==
    IF lineNumbers = <<>> THEN groupedChanges
    ELSE LET startLine == lineNumbers[1]
             endLine == lineNumbers[Len(lineNumbers)]
             groupLines == [k \in 1..Len(lineNumbers) |->
                               changes[lineNumbers[k]].Content[1]]
         IN Put(groupedChanges, startLine,
                [Type |-> IF groupType = "modification"
                          THEN "modification_group" ELSE "addition_group",
                 LineNumber |-> startLine, Content |-> groupLines,
                 OldContent |-> EmptyLine, GroupLines |-> groupLines,
                 StartLine |-> startLine, EndLine |-> endLine])

\* the last index of the run of consecutive line numbers of type groupType
\* that ends the run lineNumbers[..j-1]
RECURSIVE groupEndFrom(_, _, _, _)
groupEndFrom(changes, lineNumbers, j, groupType) ==
    IF /\ j <= Len(lineNumbers)
       /\ lineNumbers[j] = lineNumbers[j - 1] + 1
       /\ changes[lineNumbers[j]].Type = groupType
    THEN groupEndFrom(changes, lineNumbers, j + 1, groupType)
    ELSE j - 1

RECURSIVE groupFrom(_, _, _, _)
groupFrom(changes, lineNumbers, i, groupedChanges) ==
    IF i > Len(lineNumbers) THEN groupedChanges
    ELSE LET lineNum == lineNumbers[i]
             change == changes[lineNum]
             groupEnd == groupEndFrom(changes, lineNumbers, i + 1, change.Type)
         IN IF change.Type \in {"modification", "addition"} /\ groupEnd > i
            THEN groupFrom(changes, lineNumbers, groupEnd + 1,
                           createGroup(changes, SubSeq(lineNumbers, i, groupEnd),
                                       change.Type, groupedChanges))
            ELSE groupFrom(changes, lineNumbers, i + 1,
                           Put(groupedChanges, lineNum, change))

\* applyGrouping: runs of consecutive modifications, or of consecutive
\* additions, become one group change
applyGrouping(changes) ==
    groupFrom(changes, SortedSeq(DOMAIN changes), 1, NoChanges)

\* analyzeDiff: result.Changes
analyzeDiff(text1, text2) ==
    applyGrouping(processLineDiffs(DiffMain(text1, text2), 1, 0, 0, NoChanges))

\* a ChangeCluster; Changes holds the line numbers of its changes
ChangeCluster(lineNum, endLine) ==
    [StartLine |-> lineNum, EndLine |-> endLine, Changes |-> {lineNum}]

RECURSIVE groupChangesByProximityFrom(_, _, _, _, _, _)
groupChangesByProximityFrom(diff, lineNumbers, i, proximityThreshold, clusters, currentCluster) ==
    IF i > Len(lineNumbers) THEN clusters \o currentCluster
    ELSE LET lineNum == lineNumbers[i]
             change == diff[lineNum]
             endLine == IF IsGroup(change) THEN change.EndLine ELSE lineNum
         IN IF currentCluster = <<>>
            THEN groupChangesByProximityFrom(diff, lineNumbers, i + 1,
                     proximityThreshold, clusters,
                     <<ChangeCluster(lineNum, endLine)>>)
            ELSE IF lineNum - currentCluster[1].EndLine <= proximityThreshold
            THEN groupChangesByProximityFrom(diff, lineNumbers, i + 1,
                     proximityThreshold, clusters,
                     <<[currentCluster[1] EXCEPT
                          !.Changes = @ \cup {lineNum},
                          !.EndLine = Max(@, endLine)]>>)
            ELSE groupChangesByProximityFrom(diff, lineNumbers, i + 1,
                     proximityThreshold, clusters \o currentCluster,
                     <<ChangeCluster(lineNum, endLine)>>)

groupChangesByProximity(diff, lineNumbers, proximityThreshold) ==
    groupChangesByProximityFrom(diff, lineNumbers, 1, proximityThreshold,
                                <<>>, <<>>)

clusterDistanceFromCursor(cluster, cursorRow, baseLineOffset) ==
    LET bufferStartLine == cluster.StartLine + baseLineOffset - 1
        bufferEndLine == cluster.EndLine + baseLineOffset - 1
    IN IF cursorRow >= bufferStartLine /\ cursorRow <= bufferEndLine THEN 0
       ELSE IF cursorRow < bufferStartLine THEN bufferStartLine - cursorRow
       ELSE cursorRow - bufferEndLine

\* createCompletionFromCluster: the lines of the new text at the cluster's
\* line numbers, to replace the buffer lines at the same numbers
createCompletionFromCluster(cluster, newLines, baseLineOffset) ==
    LET startLine == cluster.StartLine
        endLine == cluster.EndLine
    IN [StartLine  |-> startLine + baseLineOffset - 1,
        EndLineInc |-> endLine + baseLineOffset - 1,
        Lines      |-> [k \in 1..(endLine - startLine + 1) |->
                           IF startLine + k - 1 <= Len(newLines)
                           THEN newLines[startLine + k - 1]
                           ELSE EmptyLine]]

buildStagesFromClusters(clusters, newLines, baseLineOffset) ==
    [i \in 1..Len(clusters) |->
        [Completion   |-> createCompletionFromCluster(clusters[i], newLines,
                                                      baseLineOffset),
         CursorTarget |-> IF i = Len(clusters)
                          THEN <<Target(clusters[i].EndLine + baseLineOffset - 1,
                                        TRUE)>>
                          ELSE <<Target(clusters[i + 1].StartLine
                                            + baseLineOffset - 1, FALSE)>>,
         IsLastStage  |-> i = Len(clusters)]]

\* the less function CreateStages sorts the clusters with
clusterLess(a, b, cursorRow, baseLineOffset) ==
    LET distI == clusterDistanceFromCursor(a, cursorRow, baseLineOffset)
        distJ == clusterDistanceFromCursor(b, cursorRow, baseLineOffset)
    IN IF distI # distJ THEN distI < distJ ELSE a.StartLine < b.StartLine

\* sort.SliceStable; no two clusters start on the same line, so the order is
\* total
RECURSIVE sortClusters(_, _, _)
sortClusters(clusters, cursorRow, baseLineOffset) ==
    IF clusters = <<>> THEN <<>>
    ELSE LET m == CHOOSE i \in 1..Len(clusters) :
                      \A j \in 1..Len(clusters) :
                          j = i \/ clusterLess(clusters[i], clusters[j],
                                               cursorRow, baseLineOffset)
         IN <<clusters[m]>>
                \o sortClusters(SubSeq(clusters, 1, m - 1)
                                    \o SubSeq(clusters, m + 1, Len(clusters)),
                                cursorRow, baseLineOffset)

\* CreateStages; <<>> is the nil it returns when no staging is needed
CreateStages(diff, cursorRow, viewportTop, viewportBottom, baseLineOffset, proximityThreshold, newLines) ==
    LET isVisible(lineNum) ==
            LET bufferLine == lineNum + baseLineOffset - 1
                endBufferLine == IF IsGroup(diff[lineNum])
                                 THEN diff[lineNum].EndLine + baseLineOffset - 1
                                 ELSE bufferLine
            IN \/ viewportTop = 0 /\ viewportBottom = 0
               \/ bufferLine >= viewportTop /\ endBufferLine <= viewportBottom
        inViewChanges == { l \in DOMAIN diff : isVisible(l) }
        outViewChanges == (DOMAIN diff) \ inViewChanges
        allClusters ==
            groupChangesByProximity(diff, SortedSeq(inViewChanges),
                                    proximityThreshold)
            \o groupChangesByProximity(diff, SortedSeq(outViewChanges),
                                       proximityThreshold)
    IN IF DOMAIN diff = {} \/ Len(allClusters) <= 1 THEN <<>>
       ELSE buildStagesFromClusters(
                sortClusters(allClusters, cursorRow, baseLineOffset),
                newLines, baseLineOffset)


(***************************************************************************)
(* Staged acceptance of one provider response.                             *)
(***************************************************************************)
\* buffer lines before and after the range the response rewrites
Before(i) == [kind |-> "before", i |-> i]

After(i) == [kind |-> "after", i |-> i]

\* the old text of the range: the buffer lines the request sent
OldText == [i \in 1..OldLen |-> OldLine(i)]

\* what the provider does to an old line, and after which old lines (0: at the
\* top) it inserts a new one; the last line of the range is left alone
LineOps == {"keep", "append", "rewrite", "delete"}

EditScripts ==
    { s \in [ops : [1..OldLen -> LineOps], ins : SUBSET (0..(OldLen - 1))] :
        /\ s.ops[OldLen] = "keep"
        /\ LET edits == Cardinality({ i \in 1..OldLen : s.ops[i] # "keep" })
                            + Cardinality(s.ins)
           IN edits >= 1 /\ edits <= MaxEdits }

RECURSIVE NewTextFrom(_, _)
NewTextFrom(s, i) ==
    IF i > OldLen THEN <<>>
    ELSE (IF i = 0 THEN <<>>
          ELSE IF s.ops[i] = "keep" THEN <<OldLine(i)>>
          ELSE IF s.ops[i] = "append" THEN <<Appended(i)>>
          ELSE IF s.ops[i] = "rewrite" THEN <<Rewritten(i)>>
          ELSE <<>>)
         \o (IF i \in s.ins THEN <<Fresh(i)>> ELSE <<>>)
         \o NewTextFrom(s, i + 1)

\* the new text the provider returns for the range
NewText(s) == NewTextFrom(s, 0)

\* the buffer the response was requested for: the range starts at line base
BufferOf(base) ==
    [i \in 1..(base - 1) |-> Before(i)] \o OldText \o <<After(1)>>

\* the response applied in one step: its range replaced by its new lines
Whole(g) ==
    [StartLine |-> g.base, EndLineInc |-> g.base + OldLen - 1, Lines |-> g.new]

StagingInputs ==
    { [phase |-> "response", new |-> NewText(s), base |-> base,
       cursorRow |-> row, viewportTop |-> vp[1], viewportBottom |-> vp[2],
       buffer |-> BufferOf(base), stages |-> <<>>, idx |-> 0] :
        s \in EditScripts, base \in 1..2, row \in {1, 4, OldLen + 1},
        vp \in {<<0, 0>>, <<1, 3>>, <<3, OldLen + 2>>} }

\* the completion is ready: the diff of the old against the new text is staged
\* (processCompletion), or kept whole when CreateStages returns nil
StageResponse ==
    /\ sg.phase = "response"
    /\ LET stages == CreateStages(analyzeDiff(OldText, sg.new), sg.cursorRow,
                                  sg.viewportTop, sg.viewportBottom, sg.base,
                                  DistThreshold, sg.new)
       IN sg' = [sg EXCEPT !.phase = IF stages = <<>> THEN "whole" ELSE "staged",
                           !.stages = stages]
    /\ UNCHANGED engineVars
    /\ UNCHANGED <<pa, fs, mu, lp, st, restVars>>

\* Tab on the stage shown: the batch of its completion is executed and the
\* next stage becomes the current one
AcceptStage ==
    /\ sg.phase = "staged"
    /\ LET b == Batch(sg.stages[sg.idx + 1].Completion)
       IN sg' = [sg EXCEPT
                   !.buffer = ReplaceLines(@, b.start, b.endInc, b.lines),
                   !.idx = @ + 1,
                   !.phase = IF sg.idx + 1 < Len(sg.stages)
                             THEN "staged" ELSE "done"]
    /\ UNCHANGED engineVars
    /\ UNCHANGED <<pa, fs, mu, lp, st, restVars>>

\* Tab on a completion that was not staged
AcceptWhole ==
    /\ sg.phase = "whole"
    /\ LET b == Batch(Whole(sg))
       IN sg' = [sg EXCEPT
                   !.buffer = ReplaceLines(@, b.start, b.endInc, b.lines),
                   !.phase = "done"]
    /\ UNCHANGED engineVars
    /\ UNCHANGED <<pa, fs, mu, lp, st, restVars>>

InitStaging ==
    /\ OthersOff
    /\ EngineInit
    /\ config = [Enabled |-> TRUE, AutoAdvance |-> TRUE]
    /\ sg \in StagingInputs
    /\ mu = "free"
    /\ pa = NoPartial
    /\ fs = NoFiles
    /\ lp = NoLoop
    /\ st = NoStager

NextStaging == StageResponse \/ AcceptStage \/ AcceptWhole

SpecStaging == InitStaging /\ [][NextStaging]_vars

\* C1: once every stage of a staged completion has been accepted in the order
\* the stages are listed, the buffer is the buffer the response was requested
\* for with the response's range replaced by the response's new lines
C1_StagesRebuildResponse ==
    (sg.phase = "done" /\ sg.stages # <<>>)
        => sg.buffer = ReplaceLines(BufferOf(sg.base), Whole(sg).StartLine,
                                    Whole(sg).EndLineInc, Whole(sg).Lines)

\* the changes applied to the old text: a deletion removes the old line it
\* names, a modification of either kind replaces the old line it names by its
\* content, and the additions are then inserted at their line numbers in
\* ascending order
RECURSIVE insertAdditions(_, _, _)
insertAdditions(changes, lineNumbers, text) ==
    IF lineNumbers = <<>> THEN text
    ELSE LET k == Head(lineNumbers)
             at == IF k > Len(text) + 1 THEN Len(text) + 1 ELSE k
         IN insertAdditions(changes, Tail(lineNumbers),
                SubSeq(text, 1, at - 1) \o changes[k].Content
                    \o SubSeq(text, at, Len(text)))

RECURSIVE rewriteOld(_, _)
rewriteOld(changes, text) ==
    IF text = <<>> THEN <<>>
    ELSE LET hits == { k \in DOMAIN changes :
                         \/ /\ changes[k].Type = "deletion"
                            /\ changes[k].Content = <<Head(text)>>
                         \/ /\ changes[k].Type \notin {"deletion", "addition"}
                            /\ changes[k].OldContent = Head(text) }
             k == CHOOSE x \in hits : TRUE
         IN (IF hits = {} THEN <<Head(text)>>
             ELSE IF changes[k].Type = "deletion" THEN <<>>
             ELSE changes[k].Content)
            \o rewriteOld(changes, Tail(text))

applyChanges(changes, oldText) ==
    insertAdditions(changes,
        SortedSeq({ k \in DOMAIN changes : changes[k].Type = "addition" }),
        rewriteOld(changes, oldText))

\* C28: the changes the line diff of the old and the new text produces, applied
\* to the old text, give the new text: no deleted, added or modified line is
\* lost
C28_ChangesRebuildNewText ==
    sg.phase \in {"staged", "whole", "done"}
        => applyChanges(processLineDiffs(DiffMain(OldText, sg.new), 1, 0, 0,
                                         NoChanges), OldText) = sg.new

(***************************************************************************)
(* Partial accept of the shown completion (SpecPartial).  A line is a      *)
(* sequence of characters: "a" an identifier character, " " whitespace,    *)
(* "." punctuation.                                                        *)
(***************************************************************************)
\* lines of the buffer the completion is shown over
PartLines == 3

\* characters an append_chars completion adds to its line
MaxSuffix == 2

Chars == {"a", " ", "."}

IsIdent(c) == c = "a"

\* line i as the user left it, and as a full-line modification rewrites it
Old(i) == [j \in 1..i |-> "a"]

New(i) == <<".">> \o Old(i)

OldBuffer == [i \in 1..PartLines |-> Old(i)]

Suffixes == UNION { [1..k -> Chars] : k \in 1..MaxSuffix }

\* NewEngine: the engine as constructed
NewEngine ==
    [state |-> stateIdle, stopped |-> FALSE, n |-> FALSE, mainCtxDone |-> FALSE,
     currentCancel |-> 0, prefetchCancel |-> 0,
     idleTimer |-> 0, textChangeTimer |-> 0,
     eventChan |-> <<>>, completions |-> <<>>,
     applyBatch |-> <<>>, cursorTarget |-> <<>>,
     stagedCompletion |-> <<>>,
     prefetchedCompletions |-> <<>>,
     prefetchedCursorTarget |-> <<>>,
     prefetchInProgress |-> FALSE,
     waitingForPrefetchOnTab |-> FALSE,
     waitingForPrefetchCursorPrediction |-> FALSE,
     config |-> [Enabled |-> TRUE, AutoAdvance |-> FALSE],
     reqs |-> <<>>, pfs |-> <<>>,
     edLines |-> <<>>, edRow |-> 1, bufLines |-> <<>>,
     bufRow |-> 0, ui |-> NoUI]

\* the engine variables hold the engine e
Load(e) ==
    /\ state = e.state
    /\ stopped = e.stopped
    /\ n = e.n
    /\ mainCtxDone = e.mainCtxDone
    /\ currentCancel = e.currentCancel
    /\ prefetchCancel = e.prefetchCancel
    /\ idleTimer = e.idleTimer
    /\ textChangeTimer = e.textChangeTimer
    /\ eventChan = e.eventChan
    /\ completions = e.completions
    /\ applyBatch = e.applyBatch
    /\ cursorTarget = e.cursorTarget
    /\ stagedCompletion = e.stagedCompletion
    /\ prefetchedCompletions = e.prefetchedCompletions
    /\ prefetchedCursorTarget = e.prefetchedCursorTarget
    /\ prefetchInProgress = e.prefetchInProgress
    /\ waitingForPrefetchOnTab = e.waitingForPrefetchOnTab
    /\ waitingForPrefetchCursorPrediction = e.waitingForPrefetchCursorPrediction
    /\ config = e.config
    /\ reqs = e.reqs
    /\ pfs = e.pfs
    /\ edLines = e.edLines
    /\ edRow = e.edRow
    /\ bufLines = e.bufLines
    /\ bufRow = e.bufRow
    /\ ui = e.ui

\* a completion that rewrites the k lines from line s
LinesCompletion(s, k) ==
    [StartLine |-> s, EndLineInc |-> s + k - 1,
     Lines |-> [i \in 1..k |-> New(s + i - 1)]]

\* a completion that appends characters to line r
AppendCompletion(r, suffix) ==
    [StartLine |-> r, EndLineInc |-> r, Lines |-> <<Old(r) \o suffix>>]

\* what the provider answered and how the differ hinted the leading group:
\* one completion with or without a cursor target, or two stages
PartialInputs ==
    LET targets == {<<>>} \cup { <<Target(PartLines, b)>> : b \in BOOLEAN }
        plain(c, t, hint) ==
            [response |-> [Completions |-> <<c>>, CursorTarget |-> t,
                           Stages |-> <<>>],
             hint |-> hint]
    IN { plain(LinesCompletion(s, k), t, "") :
           s \in 1..PartLines, k \in 1..PartLines, t \in targets }
       \cup { plain(AppendCompletion(r, x), t, "append_chars") :
                r \in 1..PartLines, x \in Suffixes, t \in targets }
       \cup { [response |->
                 [Completions |-> <<LinesCompletion(1, 2)>>, CursorTarget |-> <<>>,
                  Stages |-> << [Completion |-> LinesCompletion(1, 2),
                                 CursorTarget |-> <<Target(PartLines, FALSE)>>,
                                 IsLastStage |-> FALSE],
                                [Completion |-> LinesCompletion(PartLines, 1),
                                 CursorTarget |-> <<Target(PartLines, TRUE)>>,
                                 IsLastStage |-> TRUE] >>],
               hint |-> ""] }

\* the engine showing the completion: the request was made on row `row` and
\* handleCompletionReady received the response
Shown(input, row, enabled) ==
    handleCompletionReady(
        SyncIn([NewEngine EXCEPT !.n = TRUE, !.edLines = OldBuffer,
                                 !.edRow = row, !.config.Enabled = enabled,
                                 !.state = statePendingCompletion]),
        input.response)

\* the characters up to the next word boundary: a non-identifier character
\* alone, or the identifier characters and the whitespace that ends them
wordEnd(rest) ==
    LET run == CHOOSE k \in 0..Len(rest) :
                   /\ \A j \in 1..k : IsIdent(rest[j])
                   /\ IF k = Len(rest) THEN TRUE ELSE ~IsIdent(rest[k + 1])
    IN IF run = 0 THEN 1
       ELSE IF run < Len(rest) THEN (IF rest[run + 1] = " " THEN run + 1 ELSE run)
       ELSE run

\* the characters of the completion line the buffer line does not hold yet
Remaining(e) ==
    LET c == e.completions[1]
    IN SubSeq(c.Lines[1], Len(e.edLines[c.StartLine]) + 1, Len(c.Lines[1]))

\* this partial accept consumes the last group of the shown completion
Exhausts(e, hint) ==
    IF hint = "append_chars" THEN wordEnd(Remaining(e)) = Len(Remaining(e))
    ELSE Len(e.completions[1].Lines) = 1

\* no more groups: sync the buffer; show the next stage if there is one, else
\* prefetch when the cursor target retriggers, else idle
finishPartialAccept(e) ==
    LET e1 == SyncIn([OnReject(e) EXCEPT !.completions = <<>>, !.applyBatch = <<>>])
        more == IF e1.stagedCompletion = <<>> THEN FALSE
                ELSE e1.stagedCompletion[1].CurrentIdx + 1
                         < Len(e1.stagedCompletion[1].Stages)
    IN IF more
       THEN showCurrentStage([e1 EXCEPT !.stagedCompletion[1].CurrentIdx = @ + 1])
       ELSE LET e2 == [e1 EXCEPT !.stagedCompletion = <<>>, !.state = stateIdle]
            IN IF e2.cursorTarget = <<>> THEN e2
               ELSE IF e2.cursorTarget[1].ShouldRetrigger THEN requestPrefetch(e2)
               ELSE e2

\* PartialAccept: accept the leading group only
doPartialAcceptCompletion(e, hint) ==
    IF e.completions = <<>> THEN e
    ELSE LET c == e.completions[1]
             ins == SubSeq(Remaining(e), 1, wordEnd(Remaining(e)))
             e1 == IF hint = "append_chars"
                   THEN [e EXCEPT !.edLines[c.StartLine] = @ \o ins]
                   ELSE [e EXCEPT !.edLines[c.StartLine] = c.Lines[1]]
             rest == [c EXCEPT !.StartLine = @ + 1, !.Lines = Tail(@)]
         IN IF Exhausts(e, hint) THEN finishPartialAccept(e1)
            ELSE IF hint = "append_chars" THEN e1
            ELSE OnCompletionReady([e1 EXCEPT !.completions = <<rest>>], rest)

PartialAccept ==
    /\ pa.phase \in {"shown", "partial"}
    /\ state = stateHasCompletion
    /\ Install(doPartialAcceptCompletion(Cur, pa.hint))
    /\ pa' = [pa EXCEPT !.phase = IF Exhausts(Cur, pa.hint) THEN "exhausted"
                                  ELSE "partial",
                        !.target = cursorTarget]
    /\ UNCHANGED <<sg, fs, mu, lp, st, restVars>>

\* Tab after at least one partial accept: the rest of the stage at once
AcceptRest ==
    /\ pa.phase = "partial"
    /\ state = stateHasCompletion
    /\ Install(handleTab(Cur))
    /\ pa' = [pa EXCEPT !.phase = "accepted"]
    /\ UNCHANGED <<sg, fs, mu, lp, st, restVars>>

\* Tab on the stage as shown
AcceptDirect ==
    /\ pa.phase = "shown"
    /\ state = stateHasCompletion
    /\ Install(handleTab(Cur))
    /\ pa' = [pa EXCEPT !.phase = "direct"]
    /\ UNCHANGED <<sg, fs, mu, lp, st, restVars>>

InitPartial ==
    /\ OthersOff
    /\ \E input \in PartialInputs, row \in 1..PartLines, enabled \in BOOLEAN :
          /\ input.response.Completions[1].EndLineInc <= PartLines
          /\ Load(Shown(input, row, enabled))
          /\ pa = [phase |-> "shown", hint |-> input.hint,
                   start |-> Shown(input, row, enabled), target |-> <<>>]
    /\ mu = "free"
    /\ sg = NoStaging
    /\ fs = NoFiles
    /\ lp = NoLoop
    /\ st = NoStager

NextPartial == PartialAccept \/ AcceptRest \/ AcceptDirect

SpecPartial == InitPartial /\ [][NextPartial]_vars

Receive_Newest(q) == [event |-> q[Len(q)], rest |-> SubSeq(q, 1, Len(q) - 1)]

Receive(q) == [event |-> Head(q), rest |-> Tail(q)]

\* defer e.mu.Unlock() of handleEvent, left out
Unlock_Missing == "held"

\* defer e.mu.Unlock() of handleEvent: runs on return and on panic
Unlock == "free"

\* the switch of handleEvent
handleEvent(e, event) ==
    CASE event.Type = EventEsc -> handleEsc(e)
      [] event.Type = EventTextChanged -> handleTextChange(e)
      [] event.Type = EventTextChangeTimeout -> handleTextChangeTimeout(e)
      [] event.Type = EventCursorMovedNormal -> handleCursorMoveNormal(e)
      [] event.Type = EventInsertEnter -> handleInsertEnter(e)
      [] event.Type = EventInsertLeave -> handleInsertLeave(e)
      [] event.Type = EventTab -> handleTab(e)
      [] event.Type = EventIdleTimeout -> handleIdleTimeout(e)
      [] event.Type = EventCompletionReady -> handleCompletionReady(e, event.Data)
      [] event.Type = EventCompletionError -> handleCompletionError(e, event.Data)
      [] event.Type = EventPrefetchReady -> handlePrefetchReady(e, event.Data)
      [] event.Type = EventPrefetchError -> handlePrefetchError(e, event.Data)

\* the books after an event left the queue
Taken(l, event) ==
    IF event.Type \in EditorEvents THEN [l EXCEPT !.handled = event.Data] ELSE l

\* the books after a handler ran: quiet says Esc or InsertEnter stopped the
\* idle timer and nothing armed it since
Noted(l, event) ==
    [Taken(l, event) EXCEPT
        !.quiet = IF event.Type \in {EventEsc, EventInsertEnter} THEN TRUE
                  ELSE IF event.Type \in {EventCursorMovedNormal, EventInsertLeave}
                  THEN FALSE
                  ELSE @]

\* the cursortab_event handler posts the editor's event
LoopPost(ev) ==
    /\ n
    /\ ~stopped
    /\ ~mainCtxDone
    /\ Room
    /\ lp.posted < MaxPosts
    /\ Post(ev, lp.posted + 1)
    /\ lp' = [lp EXCEPT !.posted = @ + 1]
    /\ IF ev = EventCursorMovedNormal
       THEN \E r \in Rows : edRow' = r
       ELSE edRow' = edRow
    /\ UNCHANGED <<state, stopped, n, mainCtxDone, currentCancel, prefetchCancel,
                   idleTimer, textChangeTimer, completions, applyBatch,
                   cursorTarget, stagedCompletion, prefetchedCompletions,
                   prefetchedCursorTarget, prefetchInProgress,
                   waitingForPrefetchOnTab, waitingForPrefetchCursorPrediction,
                   config, reqs, pfs, edLines, bufLines, bufRow, ui,
                   sg, pa, fs, mu, st, restVars>>

\* one turn of eventLoop: take an event, handle it under the lock
LoopHandle ==
    /\ ~stopped
    /\ eventChan # <<>>
    /\ mu = "free"
    /\ LET r == Receive(eventChan)
           e == handleEvent([Cur EXCEPT !.eventChan = r.rest], r.event)
       IN /\ Len(e.reqs) <= MaxReqs
          /\ Len(e.pfs) <= MaxPrefetch
          /\ Install(e)
          /\ lp' = [Noted(lp, r.event) EXCEPT !.afterPanic = @ \/ lp.panics > 0]
    /\ mu' = Unlock
    /\ UNCHANGED <<sg, pa, fs, st, restVars>>

\* one turn of eventLoop in which the handler panics, before or after its
\* effects: the deferred Unlock runs, the recover of eventLoop logs the panic
\* and the loop goes on
LoopPanic ==
    /\ ~stopped
    /\ eventChan # <<>>
    /\ mu = "free"
    /\ lp.panics < MaxPanics
    /\ \E done \in BOOLEAN :
          LET r == Receive(eventChan)
              e0 == [Cur EXCEPT !.eventChan = r.rest]
              e == IF done THEN handleEvent(e0, r.event) ELSE e0
          IN /\ Len(e.reqs) <= MaxReqs
             /\ Len(e.pfs) <= MaxPrefetch
             /\ Install(e)
             /\ lp' = [(IF done THEN Noted(lp, r.event) ELSE Taken(lp, r.event))
                          EXCEPT !.panics = @ + 1]
    /\ mu' = Unlock
    /\ UNCHANGED <<sg, pa, fs, st, restVars>>

\* the engine when the editor connected, idle or showing a completion
LoopStarts ==
    LET idle == [NewEngine EXCEPT !.n = TRUE, !.edLines = [i \in Rows |-> 0]]
        pending == [requestCompletion(idle) EXCEPT !.reqs[1] = AfterPost(@)]
    IN {idle,
        handleCompletionReady(pending,
            [Completions |-> <<Completion(1)>>,
             CursorTarget |-> <<Target(NumLines, TRUE)>>, Stages |-> <<>>])}

InitLoop ==
    /\ OthersOff
    /\ \E e \in LoopStarts : Load(e)
    /\ mu = "free"
    /\ lp = [phase |-> "on", posted |-> 0, handled |-> 0, panics |-> 0,
             quiet |-> FALSE, afterPanic |-> FALSE]
    /\ sg = NoStaging
    /\ pa = NoPartial
    /\ fs = NoFiles
    /\ st = NoStager

NextLoop ==
    \/ \E ev \in EditorEvents : LoopPost(ev)
    \/ IdleTimerFire
    \/ TextChangeTimerFire
    \/ LoopHandle
    \/ LoopPanic

SpecLoop == InitLoop /\ [][NextLoop]_vars

\* C16: handling Esc or InsertEnter leaves the idle timer stopped, and until
\* the timer is armed again no IdleTimeout starts a completion request;
\* handling InsertLeave rejects (state Idle) and arms the idle timer.
C16_IdleTimerStoppedAndArmed ==
    [][LoopHandle
          => LET event == Receive(eventChan).event
             IN /\ event.Type \in {EventEsc, EventInsertEnter} => idleTimer' = 0
                /\ (event.Type = EventIdleTimeout /\ lp.quiet) => reqs' = reqs
                /\ event.Type = EventInsertLeave
                       => /\ state' = stateIdle
                          /\ completions' = <<>>
                          /\ idleTimer' = 1]_vars

\* C19: when a handler panics the event is gone from the queue, the rest of
\* the queue is untouched, the lock is free and the engine is not stopped, so
\* the loop takes the next event; the lock is never left held.
C19_PanicRecovered ==
    /\ [](mu = "free")
    /\ [][LoopPanic
             => /\ eventChan' = Tail(eventChan)
                /\ mu' = "free"
                /\ ~stopped']_vars

\* an event was handled after a handler had panicked
C19_HandledAfterPanic ==
    /\ lp.phase = "on"
    /\ lp.panics > 0
    /\ lp.afterPanic

\* C20: the editor's events leave the queue one at a time and in posting order:
\* every turn of the loop takes exactly one event, and the ticket of the
\* editor event taken is the successor of the one taken before.
C20_HandledInPostingOrder ==
    /\ [][(LoopHandle \/ LoopPanic) => Len(eventChan') = Len(eventChan) - 1]_vars
    /\ [][lp'.handled # lp.handled => lp'.handled = lp.handled + 1]_vars

\* the first event was handled and the next two editor events wait in the
\* queue together
C20_TwoWaitAfterOneHandled ==
    /\ lp.phase = "on"
    /\ lp.handled = 1
    /\ lp.posted = 3
    /\ Len(eventChan) = 2
    /\ \A i \in 1..2 : eventChan[i].Type \in EditorEvents

(***************************************************************************)
(* The file-state store (SpecFiles): e.fileStateStore as a function from   *)
(* the stored paths to their LastAccessNs, the path of the buffer, and the *)
(* clock.  The buffer reports file switches; an accept saves the current   *)
(* file's state.                                                           *)
(***************************************************************************)
\* the clock's last reading in one run
MaxClock == 3

Paths == {"a", "b", "c"}

Put1(store, path, at) ==
    [p \in DOMAIN store \cup {path} |-> IF p = path THEN at ELSE store[p]]

Without(store, path) == [p \in DOMAIN store \ {path} |-> store[p]]

\* trimFileStateStore(maxFiles): the stores it may leave; entries with equal
\* LastAccessNs are kept in the order the map happened to list them
trimFileStateStore(store, maxFiles) ==
    IF Cardinality(DOMAIN store) <= maxFiles THEN {store}
    ELSE { [p \in kept |-> store[p]] :
             kept \in { k \in SUBSET DOMAIN store :
                          /\ Cardinality(k) = maxFiles
                          /\ \A p \in k, q \in DOMAIN store \ k :
                                 store[p] >= store[q] } }

\* saveCurrentFileState
saveCurrentFileState(f) ==
    IF f.path = "" THEN {f}
    ELSE { [f EXCEPT !.store = s] :
             s \in trimFileStateStore(Put1(f.store, f.path, f.clock), 2) }

\* handleFileSwitch(oldPath, newPath, currentLines); valid is what
\* isFileStateValid finds for the stored state of newPath
handleFileSwitch(f, oldPath, newPath, valid) ==
    IF oldPath = newPath THEN f
    ELSE LET s1 == IF oldPath # "" THEN Put1(f.store, oldPath, f.clock)
                   ELSE f.store
         IN IF newPath \in DOMAIN s1
            THEN IF valid THEN [f EXCEPT !.store = Put1(s1, newPath, f.clock)]
                 ELSE [f EXCEPT !.store = Without(s1, newPath)]
            ELSE [f EXCEPT !.store = s1]

\* time passes
Tick ==
    /\ fs.clock < MaxClock
    /\ fs' = [fs EXCEPT !.clock = @ + 1]
    /\ UNCHANGED engineVars
    /\ UNCHANGED <<sg, pa, mu, lp, st, restVars>>

\* syncBuffer: the buffer now shows another file
FileSwitch ==
    /\ \E newPath \in Paths \ {fs.path}, valid \in BOOLEAN :
          fs' = [handleFileSwitch(fs, fs.path, newPath, valid)
                    EXCEPT !.path = newPath]
    /\ UNCHANGED engineVars
    /\ UNCHANGED <<sg, pa, mu, lp, st, restVars>>

\* an accept saves the state of the current file
SaveOnAccept ==
    /\ fs' \in saveCurrentFileState(fs)
    /\ UNCHANGED engineVars
    /\ UNCHANGED <<sg, pa, mu, lp, st, restVars>>

InitFiles ==
    /\ OthersOff
    /\ EngineInit
    /\ config = [Enabled |-> TRUE, AutoAdvance |-> TRUE]
    /\ fs = [phase |-> "on", store |-> [p \in {} |-> 0], path |-> "", clock |-> 0]
    /\ mu = "free"
    /\ sg = NoStaging
    /\ pa = NoPartial
    /\ lp = NoLoop
    /\ st = NoStager

NextFiles == Tick \/ FileSwitch \/ SaveOnAccept

SpecFiles == InitFiles /\ [][NextFiles]_vars

\* C18: the file-state store never holds more than two entries, and when a
\* save evicts, no evicted entry was accessed later than an entry it keeps.
C18_StoreKeepsTwoMostRecent ==
    /\ [](Cardinality(DOMAIN fs.store) <= 2)
    /\ [][SaveOnAccept
             => LET all == Put1(fs.store, fs.path, fs.clock)
                IN \A p \in DOMAIN all \ DOMAIN fs'.store, q \in DOMAIN fs'.store :
                       all[p] <= all[q]]_vars

(***************************************************************************)
(* The stagers over LineChange changes (SpecStager): the batch stager of   *)
(* text/staging.go, which stages a finished diff with its line mapping,    *)
(* and the incremental builders, which stage the lines of a response as    *)
(* they stream in; both hand their stages to the change grouper.  Of two   *)
(* operators of the same name in the sources, the one of these stagers     *)
(* carries the suffix M.                                                   *)
(*                                                                         *)
(* Lines are the records of the diff pipeline above, and two more: an old  *)
(* line with some characters replaced, and one with some removed.          *)
(***************************************************************************)
\* lines of the old text of a response
DocLen == 5
\* lines the provider changes, removes or inserts
MaxChanges == 3
\* the same, of the responses that are streamed
StreamChanges == 2

\* a value computed once and named, as a local variable of the code is
With(value, Body(_)) == Body(value)

Replaced(i) == [kind |-> "replaced", i |-> i]

Trimmed(i) == [kind |-> "trimmed", i |-> i]

\* len(line): an old line is "ab", appended "abcd", replaced "aX", trimmed
\* "a", rewritten "xyz", a fresh line "n"
len(line) ==
    CASE line.kind = "old"       -> 2
      [] line.kind = "appended"  -> 4
      [] line.kind = "replaced"  -> 2
      [] line.kind = "trimmed"   -> 1
      [] line.kind = "rewritten" -> 3
      [] line.kind = "fresh"     -> 1
      [] OTHER                   -> 0

\* categorizeLineChangeWithColumns with the columns it returns
categorizeColumns(oldLine, newLine) ==
    IF oldLine.kind = "old" /\ newLine = Appended(oldLine.i)
    THEN [Type |-> "append_chars", ColStart |-> len(oldLine), ColEnd |-> len(newLine)]
    ELSE IF oldLine.kind = "old" /\ newLine = Replaced(oldLine.i)
    THEN [Type |-> "replace_chars", ColStart |-> 1, ColEnd |-> 2]
    ELSE IF oldLine.kind = "old" /\ newLine = Trimmed(oldLine.i)
    THEN [Type |-> "delete_chars", ColStart |-> 1, ColEnd |-> 2]
    ELSE [Type |-> "modification", ColStart |-> 0, ColEnd |-> 0]

\* a LineChange
LineChange(type, oldLineNum, newLineNum, content, oldContent, colStart, colEnd) ==
    [Type |-> type, OldLineNum |-> oldLineNum, NewLineNum |-> newLineNum,
     Content |-> content, OldContent |-> oldContent,
     ColStart |-> colStart, ColEnd |-> colEnd]

\* the change of an old line into a new one
Modified(oldLine, newLine, oldLineNum, newLineNum) ==
    LET c == categorizeColumns(oldLine, newLine)
    IN LineChange(c.Type, oldLineNum, newLineNum, newLine, oldLine,
                  c.ColStart, c.ColEnd)

\* the old text, and what the provider makes of it
OldDoc == [i \in 1..DocLen |-> OldLine(i)]

DocOps == {"keep", "append", "replace", "trim", "rewrite", "delete"}

\* one edit: an operation on an old line, or a fresh line after line at
DocEdits ==
    { [op |-> o, at |-> i] : o \in DocOps \ {"keep"}, i \in 1..DocLen }
        \cup { [op |-> "insert", at |-> i] : i \in 0..DocLen }

RECURSIVE EditSets(_)
EditSets(k) ==
    IF k = 0 THEN {{}}
    ELSE LET less == EditSets(k - 1)
         IN less \cup { S \cup {e} : S \in less, e \in DocEdits }

\* 1..k edits, at most one operation on each old line
DocScriptsOf(k) ==
    { [ops |-> [i \in 1..DocLen |->
                   IF \E e \in S : e.at = i /\ e.op # "insert"
                   THEN (CHOOSE e \in S : e.at = i /\ e.op # "insert").op
                   ELSE "keep"],
       ins |-> { e.at : e \in { x \in S : x.op = "insert" } }] :
        S \in { E \in EditSets(k) :
                    /\ E # {}
                    /\ \A e, f \in E :
                           (e.at = f.at /\ e.op # "insert" /\ f.op # "insert")
                               => e = f } }

RECURSIVE NewDocFrom(_, _)
NewDocFrom(s, i) ==
    IF i > DocLen THEN <<>>
    ELSE (IF i = 0 THEN <<>>
          ELSE CASE s.ops[i] = "keep"    -> <<OldLine(i)>>
                 [] s.ops[i] = "append"  -> <<Appended(i)>>
                 [] s.ops[i] = "replace" -> <<Replaced(i)>>
                 [] s.ops[i] = "trim"    -> <<Trimmed(i)>>
                 [] s.ops[i] = "rewrite" -> <<Rewritten(i)>>
                 [] OTHER                -> <<>>)
         \o (IF i \in s.ins THEN <<Fresh(i)>> ELSE <<>>)
         \o NewDocFrom(s, i + 1)

NewDoc(s) == NewDocFrom(s, 0)

\* ComputeDiff, a delete hunk followed by an insert hunk: equal counts are
\* paired positionally; otherwise each deleted line is paired with the most
\* similar unused inserted line, the other inserted lines are additions and
\* the other deleted lines deletions (d.Deleted, keyed at the end).  Each
\* inserted line is keyed by its new line number.
pairHunks(deletedLines, insertedLines, oldLineNum, newLineNum, d) ==
    LET same == Len(deletedLines) = Len(insertedLines)
        matches == IF same THEN [i \in 1..Len(deletedLines) |-> i]
                   ELSE matchSimilar(1, deletedLines, insertedLines, {}, <<>>)
        from(j) == { i \in 1..Len(deletedLines) : matches[i] = j }
        old(j) == CHOOSE i \in from(j) : TRUE
        change(j) ==
            IF from(j) = {}
            THEN LineChange("addition", 0, newLineNum + j, insertedLines[j],
                            EmptyLine, 0, 0)
            ELSE Modified(deletedLines[old(j)], insertedLines[j],
                          oldLineNum + old(j), newLineNum + j)
    IN [Changes  |-> [k \in (DOMAIN d.Changes)
                              \cup { newLineNum + j : j \in 1..Len(insertedLines) } |->
                         IF k \in DOMAIN d.Changes THEN d.Changes[k]
                         ELSE change(k - newLineNum)],
        NewToOld |-> d.NewToOld \o
                         [j \in 1..Len(insertedLines) |->
                             IF from(j) = {} THEN 0 ELSE oldLineNum + old(j)],
        Deleted  |-> d.Deleted \o
                         SelectSeq([i \in 1..Len(deletedLines) |->
                                       [at |-> newLineNum + i,
                                        OldLineNum |-> IF matches[i] = 0
                                                       THEN oldLineNum + i ELSE 0,
                                        line |-> deletedLines[i]]],
                                   LAMBDA x : x.OldLineNum # 0)]

RECURSIVE diffHunks(_, _, _, _, _)
diffHunks(lineDiffs, i, oldLineNum, newLineNum, d) ==
    IF i > Len(lineDiffs) THEN d
    ELSE LET lines == lineDiffs[i].Lines
             type == lineDiffs[i].Type
             paired == /\ type = "delete"
                       /\ i + 1 <= Len(lineDiffs)
                       /\ lineDiffs[i + 1].Type = "insert"
         IN IF type = "equal"
            THEN diffHunks(lineDiffs, i + 1, oldLineNum + Len(lines),
                     newLineNum + Len(lines),
                     [d EXCEPT !.NewToOld =
                          @ \o [k \in 1..Len(lines) |-> oldLineNum + k]])
            ELSE IF paired
            THEN diffHunks(lineDiffs, i + 2, oldLineNum + Len(lines),
                     newLineNum + Len(lineDiffs[i + 1].Lines),
                     pairHunks(lines, lineDiffs[i + 1].Lines,
                               oldLineNum, newLineNum, d))
            ELSE IF type = "delete"
            THEN diffHunks(lineDiffs, i + 1, oldLineNum + Len(lines), newLineNum,
                     pairHunks(lines, <<>>, oldLineNum, newLineNum, d))
            ELSE diffHunks(lineDiffs, i + 1, oldLineNum, newLineNum + Len(lines),
                     pairHunks(<<>>, lines, oldLineNum, newLineNum, d))

\* the deletions, keyed by their new coordinate or the next free line number
RECURSIVE keyDeletions(_, _)
keyDeletions(deleted, changes) ==
    IF deleted = <<>> THEN changes
    ELSE LET x == Head(deleted)
         IN keyDeletions(Tail(deleted),
                Put(changes, nextFree(x.at, changes),
                    LineChange("deletion", x.OldLineNum, 0, x.line, EmptyLine, 0, 0)))

\* ComputeDiff: the DiffResult of an old and a new text
ComputeDiff(oldLines, newLines) ==
    LET d == diffHunks(DiffMain(oldLines, newLines), 1, 0, 0,
                       [Changes |-> NoChanges, NewToOld |-> <<>>, Deleted |-> <<>>])
    IN [Changes      |-> keyDeletions(d.Deleted, d.Changes),
        NewToOld     |-> d.NewToOld,
        OldLineCount |-> Len(oldLines),
        NewLineCount |-> Len(newLines)]

(***************************************************************************)
(* The change grouper and the cursor position of a stage.                  *)
(***************************************************************************)
IsCharacterLevel(type) == type \in {"append_chars", "replace_chars", "delete_chars"}

\* ChangeType.GroupType
GroupType(type) ==
    IF type \in {"addition", "deletion"} THEN type ELSE "modification"

\* ChangeType.RenderHint
RenderHint(type) == IF IsCharacterLevel(type) THEN type ELSE ""

Min(S) == CHOOSE x \in S : \A y \in S : x <= y

Highest(S) == CHOOSE x \in S : \A y \in S : x >= y

\* GroupChanges, the loop over the sorted line numbers
RECURSIVE groupChangesFrom(_, _, _, _)
groupChangesFrom(changes, lineNums, groups, currentGroup) ==
    IF lineNums = <<>> THEN groups \o currentGroup
    ELSE LET lineNum == Head(lineNums)
             change == changes[lineNum]
             groupType == GroupType(change.Type)
             changeHasHint == RenderHint(change.Type) # ""
             shouldStartNew ==
                 \/ currentGroup = <<>>
                 \/ currentGroup[1].Type # groupType
                 \/ lineNum # currentGroup[1].EndLine + 1
                 \/ currentGroup[1].RenderHint # ""
                 \/ changeHasHint
             started == [Type       |-> groupType,
                         StartLine  |-> lineNum,
                         EndLine    |-> lineNum,
                         Lines      |-> <<change.Content>>,
                         OldLines   |-> IF groupType = "modification"
                                        THEN <<change.OldContent>> ELSE <<>>,
                         BufferLine |-> 0,
                         RenderHint |-> RenderHint(change.Type),
                         ColStart   |-> IF changeHasHint THEN change.ColStart ELSE 0,
                         ColEnd     |-> IF changeHasHint THEN change.ColEnd ELSE 0]
         IN IF shouldStartNew
            THEN groupChangesFrom(changes, Tail(lineNums),
                                  groups \o currentGroup, <<started>>)
            ELSE groupChangesFrom(changes, Tail(lineNums), groups,
                     <<[currentGroup[1] EXCEPT
                          !.EndLine = lineNum,
                          !.Lines = Append(@, change.Content),
                          !.OldLines = IF groupType = "modification"
                                       THEN Append(@, change.OldContent) ELSE @]>>)

\* GroupChanges over every change, the deletions too
GroupChanges_WithDeletions(changes) ==
    groupChangesFrom(changes, SortedSeq(DOMAIN changes), <<>>, <<>>)

GroupChanges(changes) ==
    groupChangesFrom(changes,
        SortedSeq({ k \in DOMAIN changes : changes[k].Type # "deletion" }),
        <<>>, <<>>)

\* CalculateCursorPosition placing the cursor of a delete_chars change at
\* ColEnd as well
CalculateCursorPosition_ColEnd(changes, newLines) ==
    LET priority == <<"modification", "addition", "append_chars",
                      "replace_chars", "delete_chars">>
        of(ct) == { k \in DOMAIN changes : changes[k].Type = ct /\ k > 0 }
        hits == { p \in 1..Len(priority) : of(priority[p]) # {} }
        found == IF hits = {} THEN -1 ELSE Highest(of(priority[Min(hits)]))
        targetLine == IF found > Len(newLines) THEN Len(newLines) ELSE found
    IN IF targetLine <= 0 THEN [line |-> -1, col |-> -1]
       ELSE IF targetLine \in DOMAIN changes
               /\ IsCharacterLevel(changes[targetLine].Type)
       THEN [line |-> targetLine, col |-> changes[targetLine].ColEnd]
       ELSE [line |-> targetLine, col |-> len(newLines[targetLine])]

CalculateCursorPosition(changes, newLines) ==
    LET priority == <<"modification", "addition", "append_chars",
                      "replace_chars", "delete_chars">>
        of(ct) == { k \in DOMAIN changes : changes[k].Type = ct /\ k > 0 }
        hits == { p \in 1..Len(priority) : of(priority[p]) # {} }
        found == IF hits = {} THEN -1 ELSE Highest(of(priority[Min(hits)]))
        targetLine == IF found > Len(newLines) THEN Len(newLines) ELSE found
    IN IF targetLine <= 0 THEN [line |-> -1, col |-> -1]
       ELSE IF targetLine \in DOMAIN changes
               /\ IsCharacterLevel(changes[targetLine].Type)
       THEN IF changes[targetLine].Type = "delete_chars"
            THEN [line |-> targetLine, col |-> changes[targetLine].ColStart]
            ELSE [line |-> targetLine, col |-> changes[targetLine].ColEnd]
       ELSE [line |-> targetLine, col |-> len(newLines[targetLine])]

(***************************************************************************)
(* The batch stager.  A cluster holds the line numbers of its changes;     *)
(* groupChangesByProximity above clusters them, each change ending on its  *)
(* own line.                                                               *)
(***************************************************************************)
\* GetBufferLineForChange; mapping is diff.LineMapping.NewToOld
GetBufferLineForChange(change, mapKey, baseLineOffset, mapping) ==
    LET before == { i \in 1..(change.NewLineNum - 1) : mapping[i] > 0 }
    IN IF change.OldLineNum > 0 THEN change.OldLineNum + baseLineOffset - 1
       ELSE IF change.NewLineNum > 0 /\ change.NewLineNum <= Len(mapping)
       THEN IF mapping[change.NewLineNum] > 0
            THEN mapping[change.NewLineNum] + baseLineOffset - 1
            ELSE IF before # {}
            THEN mapping[Highest(before)] + baseLineOffset - 1
            ELSE mapKey + baseLineOffset - 1
       ELSE mapKey + baseLineOffset - 1

\* getClusterBufferRange: <<first, last>> buffer line of the cluster
getClusterBufferRange(cluster, baseLineOffset, diff) ==
    LET bufferLine(k) == GetBufferLineForChange(diff.Changes[k], k,
                                                baseLineOffset, diff.NewToOld)
        additions == { k \in cluster.Changes : diff.Changes[k].Type = "addition" }
        others == cluster.Changes \ additions
        anchored == { k \in additions :
                        \/ diff.Changes[k].OldLineNum > 0
                        \/ diff.Changes[k].NewLineNum > 0 }
        hasAdditions == additions # {}
        hasNonAdditions == others # {}
        maxNewLineNum ==
            Highest({0} \cup { diff.Changes[k].NewLineNum : k \in additions })
        minOld0 == IF anchored \cup others = {} THEN -1
                   ELSE Min({ bufferLine(k) : k \in anchored \cup others })
        maxOld0 == IF others = {} THEN -1
                   ELSE Highest({ bufferLine(k) : k \in others })
        minOldLineFromNonAdditions ==
            IF others = {} THEN -1 ELSE Min({ bufferLine(k) : k \in others })
        minOld1 == IF hasAdditions /\ hasNonAdditions
                      /\ minOldLineFromNonAdditions > 0
                   THEN minOldLineFromNonAdditions ELSE minOld0
        lastOldLineInRange == baseLineOffset + diff.OldLineCount - 1
        maxOld1 == IF /\ hasAdditions /\ diff.OldLineCount > 0
                      /\ maxNewLineNum > diff.OldLineCount
                      /\ maxOld0 < lastOldLineInRange
                   THEN lastOldLineInRange ELSE maxOld0
        hadValidAnchor == minOld1 # -1
        minOld2 == IF minOld1 = -1
                   THEN cluster.StartLine + baseLineOffset - 1 ELSE minOld1
        maxOld2 == IF maxOld1 # -1 THEN maxOld1
                   ELSE IF hasAdditions /\ ~hasNonAdditions THEN minOld2
                   ELSE cluster.EndLine + baseLineOffset - 1
    IN IF hasAdditions /\ ~hasNonAdditions /\ hadValidAnchor
       THEN <<minOld2 + 1, minOld2 + 1>>
       ELSE <<minOld2, maxOld2>>

\* getClusterNewLineRange: <<first, last>> new line of the cluster
getClusterNewLineRange(cluster, diff) ==
    LET new == { diff.Changes[k].NewLineNum : k \in cluster.Changes } \ {0}
    IN IF new = {} THEN <<cluster.StartLine, cluster.EndLine>>
       ELSE <<Min(new), Highest(new)>>

clusterDistanceFromCursorM(cluster, cursorRow, baseLineOffset, diff) ==
    With(getClusterBufferRange(cluster, baseLineOffset, diff), LAMBDA range :
       IF cursorRow >= range[1] /\ cursorRow <= range[2] THEN 0
       ELSE IF cursorRow < range[1] THEN range[1] - cursorRow
       ELSE cursorRow - range[2])

\* clusterNeedsNavigation
clusterNeedsNavigation(cluster, cursorRow, viewportTop, viewportBottom, baseLineOffset, diff, distThreshold) ==
    With(getClusterBufferRange(cluster, baseLineOffset, diff), LAMBDA range :
       \/ /\ viewportTop > 0 /\ viewportBottom > 0
          /\ (range[2] < viewportTop \/ range[1] > viewportBottom)
       \/ clusterDistanceFromCursorM(cluster, cursorRow, baseLineOffset, diff)
              > distThreshold)

\* one stage of buildStagesFromClusters: the cluster's new lines, its changes
\* keyed by their line within the stage, and the groups anchored in the buffer
stageOfCluster(cluster, newLines, baseLineOffset, diff) ==
    LET range == getClusterBufferRange(cluster, baseLineOffset, diff)
        new == getClusterNewLineRange(cluster, diff)
        last == IF new[2] < Len(newLines) THEN new[2] ELSE Len(newLines)
        stageLines == [j \in 1..(IF last >= new[1] THEN last - new[1] + 1 ELSE 0) |->
                          newLines[new[1] + j - 1]]
        relativeLine(k) ==
            (IF diff.Changes[k].NewLineNum > 0
             THEN diff.Changes[k].NewLineNum ELSE k) - new[1] + 1
        kept == { k \in cluster.Changes :
                    relativeLine(k) > 0 /\ relativeLine(k) <= Len(stageLines) }
        of(r) == CHOOSE k \in kept : relativeLine(k) = r
        remappedChanges ==
            [r \in { relativeLine(k) : k \in kept } |->
                [diff.Changes[of(r)] EXCEPT !.NewLineNum = r]]
        relativeToBufferLine ==
            [r \in DOMAIN remappedChanges |->
                GetBufferLineForChange(diff.Changes[of(r)], of(r),
                                       baseLineOffset, diff.NewToOld)]
        modified == { r \in DOMAIN remappedChanges :
                        remappedChanges[r].Type \in
                            {"modification", "append_chars",
                             "delete_chars", "replace_chars"} }
        lastModificationLine == IF modified = {} THEN 0 ELSE Highest(modified)
        modificationBufferLine ==
            IF modified = {} THEN range[1]
            ELSE relativeToBufferLine[lastModificationLine]
        groups == GroupChanges(remappedChanges)
        cursor == CalculateCursorPosition(remappedChanges, stageLines)
    IN [BufferStart |-> range[1],
        BufferEnd   |-> range[2],
        Lines       |-> stageLines,
        Changes     |-> remappedChanges,
        Groups      |-> [i \in 1..Len(groups) |->
                            [groups[i] EXCEPT !.BufferLine =
                                IF /\ groups[i].Type = "addition"
                                   /\ lastModificationLine > 0
                                   /\ groups[i].StartLine > lastModificationLine
                                THEN modificationBufferLine + 1
                                ELSE IF groups[i].StartLine
                                            \in DOMAIN relativeToBufferLine
                                THEN relativeToBufferLine[groups[i].StartLine]
                                ELSE range[1] + groups[i].StartLine - 1]],
        CursorLine  |-> cursor.line,
        CursorCol   |-> cursor.col]

\* buildStagesFromClusters aiming every stage but the last at the end of the
\* next cluster
buildStagesFromClustersM_NextEnd(clusters, newLines, baseLineOffset, diff) ==
    [i \in 1..Len(clusters) |->
        With(stageOfCluster(clusters[i], newLines, baseLineOffset, diff),
             LAMBDA stage :
           [BufferStart  |-> stage.BufferStart,
            BufferEnd    |-> stage.BufferEnd,
            Lines        |-> stage.Lines,
            Changes      |-> stage.Changes,
            Groups       |-> stage.Groups,
            CursorLine   |-> stage.CursorLine,
            CursorCol    |-> stage.CursorCol,
            CursorTarget |->
                IF i = Len(clusters) THEN Target(stage.BufferEnd, TRUE)
                ELSE Target(getClusterBufferRange(clusters[i + 1],
                                baseLineOffset, diff)[2] + 1, FALSE),
            IsLastStage  |-> i = Len(clusters)])]

buildStagesFromClustersM(clusters, newLines, baseLineOffset, diff) ==
    [i \in 1..Len(clusters) |->
        With(stageOfCluster(clusters[i], newLines, baseLineOffset, diff),
             LAMBDA stage :
           [BufferStart  |-> stage.BufferStart,
            BufferEnd    |-> stage.BufferEnd,
            Lines        |-> stage.Lines,
            Changes      |-> stage.Changes,
            Groups       |-> stage.Groups,
            CursorLine   |-> stage.CursorLine,
            CursorCol    |-> stage.CursorCol,
            CursorTarget |->
                IF i = Len(clusters) THEN Target(stage.BufferEnd, TRUE)
                ELSE Target(getClusterBufferRange(clusters[i + 1],
                                baseLineOffset, diff)[1], FALSE),
            IsLastStage  |-> i = Len(clusters)])]

\* CreateStages, steps 1 and 2, clustering with a threshold one too wide
partitionClusters_Wide(diff, viewportTop, viewportBottom, baseLineOffset, proximityThreshold) ==
    LET isVisible(k) ==
            LET bufferLine == GetBufferLineForChange(diff.Changes[k], k,
                                  baseLineOffset, diff.NewToOld)
            IN \/ viewportTop = 0 /\ viewportBottom = 0
               \/ bufferLine >= viewportTop /\ bufferLine <= viewportBottom
        inViewChanges == { k \in DOMAIN diff.Changes : isVisible(k) }
        outViewChanges == DOMAIN diff.Changes \ inViewChanges
    IN groupChangesByProximity(diff.Changes, SortedSeq(inViewChanges),
                               proximityThreshold + 1)
       \o groupChangesByProximity(diff.Changes, SortedSeq(outViewChanges),
                                  proximityThreshold + 1)

\* CreateStages, steps 1 and 2: the clusters of the visible changes, then the
\* clusters of the others
partitionClusters(diff, viewportTop, viewportBottom, baseLineOffset, proximityThreshold) ==
    LET isVisible(k) ==
            LET bufferLine == GetBufferLineForChange(diff.Changes[k], k,
                                  baseLineOffset, diff.NewToOld)
            IN \/ viewportTop = 0 /\ viewportBottom = 0
               \/ bufferLine >= viewportTop /\ bufferLine <= viewportBottom
        inViewChanges == { k \in DOMAIN diff.Changes : isVisible(k) }
        outViewChanges == DOMAIN diff.Changes \ inViewChanges
    IN groupChangesByProximity(diff.Changes, SortedSeq(inViewChanges),
                               proximityThreshold)
       \o groupChangesByProximity(diff.Changes, SortedSeq(outViewChanges),
                                  proximityThreshold)

\* the less function of CreateStages, step 3
clusterLessM(a, b, cursorRow, baseLineOffset, diff) ==
    With(clusterDistanceFromCursorM(a, cursorRow, baseLineOffset, diff),
         LAMBDA distI :
    With(clusterDistanceFromCursorM(b, cursorRow, baseLineOffset, diff),
         LAMBDA distJ :
       IF distI # distJ THEN distI < distJ ELSE a.StartLine < b.StartLine))

\* the clusters in ascending order of their first line
RECURSIVE sortClustersM_ByStart(_, _, _, _)
sortClustersM_ByStart(clusters, cursorRow, baseLineOffset, diff) ==
    IF clusters = <<>> THEN <<>>
    ELSE LET m == CHOOSE i \in 1..Len(clusters) :
                      \A j \in 1..Len(clusters) :
                          clusters[i].StartLine <= clusters[j].StartLine
         IN <<clusters[m]>>
                \o sortClustersM_ByStart(SubSeq(clusters, 1, m - 1)
                                    \o SubSeq(clusters, m + 1, Len(clusters)),
                                cursorRow, baseLineOffset, diff)

\* sort.SliceStable; no two clusters start on the same line, so the order is
\* total
RECURSIVE sortClustersM(_, _, _, _)
sortClustersM(clusters, cursorRow, baseLineOffset, diff) ==
    IF clusters = <<>> THEN <<>>
    ELSE With(CHOOSE i \in 1..Len(clusters) :
                  \A j \in 1..Len(clusters) :
                      j = i \/ clusterLessM(clusters[i], clusters[j],
                                            cursorRow, baseLineOffset, diff),
              LAMBDA m :
            <<clusters[m]>>
                \o sortClustersM(SubSeq(clusters, 1, m - 1)
                                    \o SubSeq(clusters, m + 1, Len(clusters)),
                                cursorRow, baseLineOffset, diff))

\* CreateStages; Clusters is allClusters as sorted, <<>> when it returns nil
CreateStagesM(diff, cursorRow, viewportTop, viewportBottom, baseLineOffset, proximityThreshold, newLines) ==
    With(sortClustersM(partitionClusters(diff, viewportTop, viewportBottom,
                                         baseLineOffset, proximityThreshold),
                       cursorRow, baseLineOffset, diff),
         LAMBDA allClusters :
       IF DOMAIN diff.Changes = {} \/ allClusters = <<>>
       THEN [Clusters |-> <<>>, Stages |-> <<>>, FirstNeedsNavigation |-> FALSE]
       ELSE [Clusters |-> allClusters,
             Stages   |-> buildStagesFromClustersM(allClusters, newLines,
                                                   baseLineOffset, diff),
             FirstNeedsNavigation |->
                 clusterNeedsNavigation(allClusters[1], cursorRow, viewportTop,
                     viewportBottom, baseLineOffset, diff, proximityThreshold)])

(***************************************************************************)
(* SpecStager: one new text, cursor, viewport and threshold are drawn; the *)
(* batch stager stages the computed diff.                                  *)
(***************************************************************************)
\* a response of 1..k edits with the cursor, viewport and threshold it meets
StagerInputs(k) ==
    { [new |-> NewDoc(s), cursorRow |-> c[1], cursorCol |-> c[2],
       viewportTop |-> v[1], viewportBottom |-> v[2],
       proximityThreshold |-> t] :
        s \in DocScriptsOf(k),
        c \in {<<3, 1>>, <<3, 3>>},
        v \in {<<0, 0>>, <<1, 3>>},
        t \in {1, 3} }

InitStager ==
    /\ OthersOff
    /\ EngineInit
    /\ config = [Enabled |-> TRUE, AutoAdvance |-> TRUE]
    /\ mu = "free"
    /\ sg = NoStaging
    /\ pa = NoPartial
    /\ fs = NoFiles
    /\ lp = NoLoop
    /\ \E in \in StagerInputs(MaxChanges) :
           st = [phase |-> "input", in |-> in,
                 diff |-> ComputeDiff(OldDoc, in.new),
                 clusters |-> <<>>, stages |-> <<>>,
                 firstNeedsNavigation |-> FALSE]

\* AnalyzeDiffForStagingWithViewport, then CreateStages
BatchStage ==
    /\ st.phase = "input"
    /\ LET r == CreateStagesM(st.diff, st.in.cursorRow, st.in.viewportTop,
                              st.in.viewportBottom, 1,
                              st.in.proximityThreshold, st.in.new)
       IN st' = [st EXCEPT !.phase = "batch", !.clusters = r.Clusters,
                           !.stages = r.Stages,
                           !.firstNeedsNavigation = r.FirstNeedsNavigation]
    /\ UNCHANGED <<engineVars, sg, pa, fs, mu, lp, restVars>>

(***************************************************************************)
(* The incremental builders.  The diff builder matches each streamed line  *)
(* against the old lines; the stage builder opens, extends and closes      *)
(* stages as the changes arrive.                                           *)
(***************************************************************************)
NewIncrementalDiffBuilder ==
    [NewLines |-> <<>>, Changes |-> NoChanges, NewToOld |-> <<>>,
     oldLineIdx |-> 0, usedOldLines |-> {}]

\* strings.HasPrefix(line, prefix) of two lines of the model
HasPrefix(line, prefix) ==
    \/ line = prefix
    \/ prefix.kind = "old" /\ line = Appended(prefix.i)
    \/ /\ prefix.kind = "trimmed"
       /\ line.i = prefix.i
       /\ line.kind \in {"old", "appended", "replaced"}

\* matchStrategies tried in order by findMatchingOldLine: the old line
\* number matched, or 0; old lines are numbered from 1 here, so the expected
\* position is line oldLineIdx + 1.  The similarity at the expected position
\* must exceed 70 percent, the best one elsewhere 30 percent
\* findMatchingOldLine without the bitmap of matched old lines: the first old
\* line equal to the new one, matched or not
findMatchingOldLine_IgnoresUsed(b, oldLines, newLine) ==
    IF { i \in 1..Len(oldLines) : oldLines[i] = newLine } = {} THEN 0
    ELSE Min({ i \in 1..Len(oldLines) : oldLines[i] = newLine })

findMatchingOldLine(b, oldLines, newLine) ==
    LET expected == b.oldLineIdx + 1
        atExpected == expected <= Len(oldLines) /\ expected \notin b.usedOldLines
        searchStart == IF b.oldLineIdx - 2 > 0 THEN b.oldLineIdx - 2 ELSE 0
        searchEnd == IF b.oldLineIdx + 10 < Len(oldLines)
                     THEN b.oldLineIdx + 10 ELSE Len(oldLines)
        window == { i \in (searchStart + 1)..searchEnd : i \notin b.usedOldLines }
        exact == { i \in window : oldLines[i] = newLine }
        prefixed == { i \in window \ {expected} :
                        len(oldLines[i]) > 0 /\ HasPrefix(newLine, oldLines[i]) }
        similar == { i \in window \ {expected} :
                       lineSimilarity(newLine, oldLines[i]) > 30 }
        best == { i \in similar :
                    \A j \in similar : lineSimilarity(newLine, oldLines[j])
                                           <= lineSimilarity(newLine, oldLines[i]) }
    IN IF oldLines = <<>> THEN 0
       ELSE IF atExpected /\ oldLines[expected] = newLine THEN expected
       ELSE IF atExpected /\ len(oldLines[expected]) = 0 /\ len(newLine) > 0
       THEN expected
       ELSE IF exact # {} THEN Min(exact)
       ELSE IF atExpected /\ len(oldLines[expected]) > 0
               /\ HasPrefix(newLine, oldLines[expected])
       THEN expected
       ELSE IF atExpected
               /\ lineSimilarity(newLine, oldLines[expected]) > 70
       THEN expected
       ELSE IF prefixed # {} THEN Min(prefixed)
       ELSE IF best # {} THEN Min(best)
       ELSE 0

\* IncrementalDiffBuilder.AddLine: the builder afterwards, and the change
\* returned (<<>> for nil)
DiffAddLine(b, oldLines, line) ==
    With(findMatchingOldLine(b, oldLines, line), LAMBDA oldLineNum :
    LET newLineNum == Len(b.NewLines) + 1
        b1 == [b EXCEPT !.NewLines = Append(@, line),
                        !.NewToOld = Append(@, oldLineNum)]
        anchorOld == IF b.oldLineIdx > 0 /\ b.oldLineIdx <= Len(oldLines)
                     THEN b.oldLineIdx ELSE -1
        added == LineChange("addition", anchorOld, newLineNum, line,
                            EmptyLine, 0, 0)
        b2 == [b1 EXCEPT !.usedOldLines = @ \cup {oldLineNum},
                         !.oldLineIdx = Max(@, oldLineNum)]
    IN IF oldLineNum <= 0
       THEN [b |-> [b1 EXCEPT !.Changes = Put(@, newLineNum, added)],
             change |-> <<added>>]
       ELSE IF oldLines[oldLineNum] = line
       THEN [b |-> b2, change |-> <<>>]
       ELSE With(Modified(oldLines[oldLineNum], line, oldLineNum, newLineNum),
                 LAMBDA changed :
               [b |-> [b2 EXCEPT !.Changes = Put(@, newLineNum, changed)],
                change |-> <<changed>>]))

ValidateRenderHintsForCursor(groups, cursorRow, cursorCol) ==
    [i \in 1..Len(groups) |->
        IF /\ groups[i].BufferLine = cursorRow
           /\ groups[i].RenderHint \in {"append_chars", "replace_chars"}
           /\ groups[i].ColStart < cursorCol
        THEN [groups[i] EXCEPT !.RenderHint = ""]
        ELSE groups[i]]

\* FinalizeStageGroups; ctx is the StageContext.  Of several modifications on
\* the cursor row the iteration over the map keeps any one as cursorModLine:
\* pick says which
FinalizeStageGroups(changes, newLines, ctx, pick) ==
    With(GroupChanges(changes), LAMBDA groups :
    With(CalculateCursorPosition(changes, newLines), LAMBDA cursor :
    LET modified == { r \in DOMAIN changes :
                        changes[r].Type = "modification"
                            \/ IsCharacterLevel(changes[r].Type) }
        mapped(r) == IF r \in DOMAIN ctx.LineNumToBufferLine
                     THEN ctx.LineNumToBufferLine[r] ELSE 0
        bufLine(r) == IF mapped(r) = 0 THEN ctx.BufferStart + r - 1 ELSE mapped(r)
        lastModLine == IF modified = {} THEN 0 ELSE Highest(modified)
        lastModBufLine == IF modified = {} THEN ctx.BufferStart
                          ELSE bufLine(lastModLine)
        onCursor == { r \in modified : bufLine(r) = ctx.CursorRow }
        cursorModLine ==
            IF onCursor = {} THEN 0
            ELSE SortedSeq(onCursor)[IF pick < Cardinality(onCursor)
                                     THEN pick ELSE Cardinality(onCursor)]
        cursorModBufLine == IF onCursor = {} THEN 0 ELSE ctx.CursorRow
        anchored ==
            [i \in 1..Len(groups) |->
                [groups[i] EXCEPT !.BufferLine =
                    IF /\ groups[i].Type = "addition" /\ lastModLine > 0
                       /\ groups[i].StartLine > lastModLine
                    THEN lastModBufLine + 1
                    ELSE IF /\ groups[i].Type = "addition" /\ cursorModLine > 0
                            /\ groups[i].StartLine < cursorModLine
                    THEN cursorModBufLine
                    ELSE IF mapped(groups[i].StartLine) > 0
                    THEN mapped(groups[i].StartLine)
                    ELSE ctx.BufferStart + groups[i].StartLine - 1]]
    IN [groups |-> ValidateRenderHintsForCursor(anchored, ctx.CursorRow,
                                                ctx.CursorCol),
        cursorLine |-> cursor.line,
        cursorCol |-> cursor.col]))

\* LineMapping.GetBufferLine
GetBufferLine(mapping, change, mapKey, baseLineOffset) ==
    GetBufferLineForChange(change, mapKey, baseLineOffset, mapping)

\* the DiffResult computeStageBufferRange hands to getStageBufferRange
builderDiff(b, oldLines) ==
    [Changes |-> b.Changes, NewToOld |-> b.NewToOld,
     OldLineCount |-> Len(oldLines), NewLineCount |-> Len(b.NewLines)]

\* getStageBufferRange over the raw changes of an open stage
getStageBufferRange(stage, baseLineOffset, diff) ==
    getClusterBufferRange([StartLine |-> stage.startLine,
                           EndLine |-> stage.endLine,
                           Changes |-> DOMAIN stage.rawChanges],
                          baseLineOffset, diff)

\* getStageNewLineRange
getStageNewLineRange(stage) ==
    LET new == { stage.rawChanges[k].NewLineNum : k \in DOMAIN stage.rawChanges }
                   \ {0}
    IN IF new = {} THEN <<stage.startLine, stage.endLine>>
       ELSE <<Min(new), Highest(new)>>

\* computeOldLineRange: <<minOld, maxOld, len(stageOldLines)>>
computeOldLineRange(b, oldLines, stage, newStartLine, newEndLine) ==
    LET raw == stage.rawChanges
        anchors ==
            { raw[k].OldLineNum :
                k \in { x \in DOMAIN raw : /\ raw[x].OldLineNum > 0
                                           /\ raw[x].OldLineNum <= Len(oldLines) } }
            \cup (IF /\ \E k \in DOMAIN raw :
                            /\ ~(raw[k].OldLineNum > 0
                                    /\ raw[k].OldLineNum <= Len(oldLines))
                            /\ raw[k].Type = "addition"
                            /\ raw[k].OldLineNum = -1
                     /\ Len(oldLines) > 0
                  THEN {Len(oldLines)} ELSE {})
        mappedOld(j) == IF j <= Len(b.NewToOld) /\ b.NewToOld[j] > 0
                        THEN b.NewToOld[j] ELSE j
        fallback == { mappedOld(j) :
                        j \in { x \in newStartLine..newEndLine :
                                  x > 0 /\ mappedOld(x) <= Len(oldLines) } }
        found == IF anchors # {} THEN anchors ELSE fallback
        minOld == IF found = {} THEN -1 ELSE Min(found)
        maxOld == IF found = {} THEN -1 ELSE Highest(found)
    IN <<minOld, maxOld,
         IF minOld > 0 /\ maxOld > 0 THEN maxOld - minOld + 1 ELSE 0>>

\* remapChanges
remapChanges(b, oldLines, stageNewLines, newStartLine, newEndLine, minOld) ==
    LET usedOldLines ==
            { b.NewToOld[j] :
                j \in { x \in newStartLine..newEndLine :
                          x > 0 /\ x <= Len(b.NewToOld) } } \ {0}
        mappedOld(a) == IF a > 0 /\ a <= Len(b.NewToOld) THEN b.NewToOld[a] ELSE 0
        oldLine(a) ==
            IF mappedOld(a) > 0 THEN mappedOld(a)
            ELSE IF a > 0 /\ a <= Len(oldLines) /\ a \notin usedOldLines THEN a
            ELSE 0
        absolute(r) == newStartLine + r - 1
        changedLines ==
            { r \in 1..Len(stageNewLines) :
                oldLine(absolute(r)) <= 0
                    \/ oldLines[oldLine(absolute(r))] # stageNewLines[r] }
    IN [r \in changedLines |->
           IF oldLine(absolute(r)) <= 0
           THEN LineChange("addition", -1, r, stageNewLines[r], EmptyLine, 0, 0)
           ELSE Modified(oldLines[oldLine(absolute(r))], stageNewLines[r],
                         oldLine(absolute(r)) - minOld + 1, r)]

\* NewIncrementalStageBuilder
NewIncrementalStageBuilder ==
    [diffBuilder |-> NewIncrementalDiffBuilder, currentStage |-> <<>>,
     currentStageInViewport |-> FALSE, finalizedStages |-> <<>>,
     lastChangeBufferLine |-> 0]

\* finalizeCurrentStage: the builder afterwards.  bufferLines, the buffer line
\* AddLine computed for each raw change, is kept with the stage
finalizeCurrentStage(sb, oldLines, in, baseLineOffset, pick) ==
    IF sb.currentStage = <<>> \/ DOMAIN sb.currentStage[1].rawChanges = {}
    THEN sb
    ELSE LET stage == sb.currentStage[1]
             b == sb.diffBuilder
         IN
         With(getStageNewLineRange(stage), LAMBDA new :
         With([j \in 1..(IF Min({new[2], Len(b.NewLines)}) >= new[1]
                         THEN Min({new[2], Len(b.NewLines)}) - new[1] + 1
                         ELSE 0) |->
                  b.NewLines[new[1] + j - 1]],
              LAMBDA stageNewLines :
         With(computeOldLineRange(b, oldLines, stage, new[1], new[2]),
              LAMBDA olr :
         With(remapChanges(b, oldLines, stageNewLines, new[1], new[2], olr[1]),
              LAMBDA remappedChanges :
         With((IF olr[1] > 0 THEN olr[1] + baseLineOffset - 1 ELSE baseLineOffset)
                  + (IF /\ \A r \in DOMAIN remappedChanges :
                              remappedChanges[r].Type = "addition"
                        /\ olr[1] > 0
                     THEN 1 ELSE 0),
              LAMBDA bufferStart :
         With(FinalizeStageGroups(remappedChanges, stageNewLines,
                  [BufferStart |-> bufferStart,
                   CursorRow |-> in.cursorRow,
                   CursorCol |-> in.cursorCol,
                   LineNumToBufferLine |->
                       [r \in { x \in DOMAIN remappedChanges :
                                  /\ \/ remappedChanges[x].Type = "modification"
                                     \/ IsCharacterLevel(remappedChanges[x].Type)
                                  /\ remappedChanges[x].OldLineNum > 0 } |->
                           bufferStart + remappedChanges[r].OldLineNum - 1]],
                  pick),
              LAMBDA final :
            [sb EXCEPT
               !.currentStage = <<>>,
               !.finalizedStages = Append(@,
                   [startLine   |-> stage.startLine,
                    bufferLines |-> stage.bufferLines,
                    BufferStart |-> bufferStart,
                    BufferEnd   |-> Max(bufferStart + olr[3] - 1, bufferStart),
                    Lines       |-> stageNewLines,
                    Changes     |-> remappedChanges,
                    Groups      |-> final.groups,
                    CursorLine  |-> final.cursorLine,
                    CursorCol   |-> final.cursorCol])]))))))

\* computeCurrentBufferLine
computeCurrentBufferLine(b, lineNum, baseLineOffset) ==
    IF lineNum > 0 /\ lineNum <= Len(b.NewToOld) /\ b.NewToOld[lineNum] > 0
    THEN b.NewToOld[lineNum] + baseLineOffset - 1
    ELSE lineNum + baseLineOffset - 1

\* shouldStartNewStage without the check of the buffer line gap
shouldStartNewStage_NoGap(sb, bufferLine, isInViewport, in, maxVisibleLines) ==
    /\ sb.currentStage # <<>>
    /\ \/ /\ maxVisibleLines > 0
          /\ sb.currentStage[1].endLine - sb.currentStage[1].startLine + 1
                 >= maxVisibleLines
       \/ sb.currentStageInViewport # isInViewport

shouldStartNewStage(sb, bufferLine, isInViewport, in, maxVisibleLines) ==
    /\ sb.currentStage # <<>>
    /\ \/ /\ maxVisibleLines > 0
          /\ sb.currentStage[1].endLine - sb.currentStage[1].startLine + 1
                 >= maxVisibleLines
       \/ /\ sb.lastChangeBufferLine > 0
          /\ LET bufferGap == bufferLine - sb.lastChangeBufferLine
             IN (IF bufferGap < 0 THEN -bufferGap ELSE bufferGap)
                    > in.proximityThreshold
       \/ sb.currentStageInViewport # isInViewport

\* startNewStage when the stage is <<>>, extendCurrentStage otherwise
stageWith(sb, oldLines, lineNum, bufferLine, change, isInViewport, baseLineOffset) ==
    With(IF sb.currentStage = <<>>
         THEN [startLine |-> lineNum, endLine |-> lineNum,
               rawChanges |-> Put(NoChanges, lineNum, change),
               bufferLines |-> <<bufferLine>>]
         ELSE [sb.currentStage[1] EXCEPT
                 !.endLine = Max(@, lineNum),
                 !.rawChanges = Put(@, lineNum, change),
                 !.bufferLines = Append(@, bufferLine)],
         LAMBDA open :
    With(getStageBufferRange(open, baseLineOffset,
                             builderDiff(sb.diffBuilder, oldLines)),
         LAMBDA range :
       [sb EXCEPT
          !.currentStage = <<[startLine |-> open.startLine,
                              endLine |-> open.endLine,
                              rawChanges |-> open.rawChanges,
                              bufferLines |-> open.bufferLines,
                              BufferStart |-> range[1],
                              BufferEnd |-> range[2]]>>,
          !.currentStageInViewport =
              IF sb.currentStage = <<>> THEN isInViewport ELSE @,
          !.lastChangeBufferLine = bufferLine]))

\* IncrementalStageBuilder.AddLine: the builder afterwards
StageAddLine(sb, oldLines, in, baseLineOffset, maxVisibleLines, line, pick) ==
    With(DiffAddLine(sb.diffBuilder, oldLines, line), LAMBDA added :
    LET sb1 == [sb EXCEPT !.diffBuilder = added.b]
        lineNum == Len(added.b.NewLines)
        change == added.change[1]
    IN IF added.change = <<>>
       THEN IF /\ sb1.currentStage # <<>>
               /\ sb1.lastChangeBufferLine > 0
               /\ computeCurrentBufferLine(added.b, lineNum, baseLineOffset) > 0
               /\ computeCurrentBufferLine(added.b, lineNum, baseLineOffset)
                      - sb1.lastChangeBufferLine > in.proximityThreshold
            THEN finalizeCurrentStage(sb1, oldLines, in, baseLineOffset, pick)
            ELSE sb1
       ELSE With(GetBufferLine(added.b.NewToOld, change, lineNum,
                               baseLineOffset),
                 LAMBDA bufferLine :
            With(\/ in.viewportTop = 0 /\ in.viewportBottom = 0
                 \/ bufferLine >= in.viewportTop
                        /\ bufferLine <= in.viewportBottom,
                 LAMBDA isInViewport :
              IF shouldStartNewStage(sb1, bufferLine, isInViewport, in,
                                     maxVisibleLines)
              THEN stageWith(finalizeCurrentStage(sb1, oldLines, in,
                                                  baseLineOffset, pick),
                             oldLines, lineNum, bufferLine, change,
                             isInViewport, baseLineOffset)
              ELSE stageWith(sb1, oldLines, lineNum, bufferLine, change,
                             isInViewport, baseLineOffset))))

\* stageDistanceFromCursor
stageDistanceFromCursor(stage, cursorRow) ==
    IF cursorRow >= stage.BufferStart /\ cursorRow <= stage.BufferEnd THEN 0
    ELSE IF cursorRow < stage.BufferStart THEN stage.BufferStart - cursorRow
    ELSE cursorRow - stage.BufferEnd

\* StageNeedsNavigation
StageNeedsNavigation(stage, cursorRow, viewportTop, viewportBottom, distThreshold) ==
    \/ /\ viewportTop > 0 /\ viewportBottom > 0
       /\ (stage.BufferEnd < viewportTop \/ stage.BufferStart > viewportBottom)
    \/ stageDistanceFromCursor(stage, cursorRow) > distThreshold

\* the less function Finalize sorts the stages with; no two stages start on
\* the same line, so the order is total
RECURSIVE sortStages(_, _)
sortStages(stages, cursorRow) ==
    IF stages = <<>> THEN <<>>
    ELSE LET less(a, b) ==
                 LET distI == stageDistanceFromCursor(a, cursorRow)
                     distJ == stageDistanceFromCursor(b, cursorRow)
                 IN IF distI # distJ THEN distI < distJ
                    ELSE a.startLine < b.startLine
         IN With(CHOOSE i \in 1..Len(stages) :
                     \A j \in 1..Len(stages) :
                         j = i \/ less(stages[i], stages[j]),
                 LAMBDA m :
               <<stages[m]>>
                   \o sortStages(SubSeq(stages, 1, m - 1)
                                     \o SubSeq(stages, m + 1, Len(stages)),
                                 cursorRow))

\* IncrementalStageBuilder.Finalize; Stages is <<>> when it returns nil
Finalize(sb, oldLines, in, baseLineOffset, pick) ==
    With(sortStages(finalizeCurrentStage(sb, oldLines, in, baseLineOffset,
                                         pick).finalizedStages,
                    in.cursorRow),
         LAMBDA stages :
       IF stages = <<>>
       THEN [Stages |-> <<>>, FirstNeedsNavigation |-> FALSE]
       ELSE [Stages |->
                 [i \in 1..Len(stages) |->
                     LET stage == stages[i]
                         isLastStage == i = Len(stages)
                     IN [startLine    |-> stage.startLine,
                         bufferLines  |-> stage.bufferLines,
                         BufferStart  |-> stage.BufferStart,
                         BufferEnd    |-> stage.BufferEnd,
                         Lines        |-> stage.Lines,
                         Changes      |-> stage.Changes,
                         Groups       |-> stage.Groups,
                         CursorLine   |-> stage.CursorLine,
                         CursorCol    |-> stage.CursorCol,
                         CursorTarget |->
                             IF isLastStage
                             THEN Target(stage.BufferStart + Len(stage.Lines) - 1,
                                         TRUE)
                             ELSE Target(stages[i + 1].BufferStart, FALSE),
                         IsLastStage  |-> isLastStage]],
             FirstNeedsNavigation |->
                 StageNeedsNavigation(stages[1], in.cursorRow, in.viewportTop,
                                      in.viewportBottom, in.proximityThreshold)])

(***************************************************************************)
(* SpecStream: a response of at most StreamChanges edits is staged by the  *)
(* batch stager, or streamed line by line into the incremental builders    *)
(* and finalized.                                                          *)
(***************************************************************************)
InitStream ==
    /\ OthersOff
    /\ EngineInit
    /\ config = [Enabled |-> TRUE, AutoAdvance |-> TRUE]
    /\ mu = "free"
    /\ sg = NoStaging
    /\ pa = NoPartial
    /\ fs = NoFiles
    /\ lp = NoLoop
    /\ \E in \in StagerInputs(StreamChanges) :
           st = [phase |-> "input", in |-> in,
                 diff |-> ComputeDiff(OldDoc, in.new),
                 clusters |-> <<>>, stages |-> <<>>,
                 firstNeedsNavigation |-> FALSE,
                 builder |-> NewIncrementalStageBuilder]

\* the provider streams the next line of its response: AddLine
StreamLine ==
    /\ st.phase \in {"input", "streaming"}
    /\ "builder" \in DOMAIN st
    /\ Len(st.builder.diffBuilder.NewLines) < Len(st.in.new)
    /\ \E pick \in 1..StreamChanges :
           st' = [st EXCEPT
                    !.phase = "streaming",
                    !.builder = StageAddLine(@, OldDoc, st.in, 1, 0,
                        st.in.new[Len(st.builder.diffBuilder.NewLines) + 1],
                        pick)]
    /\ UNCHANGED <<engineVars, sg, pa, fs, mu, lp, restVars>>

\* the stream ends: Finalize
StreamEnd ==
    /\ st.phase \in {"input", "streaming"}
    /\ "builder" \in DOMAIN st
    /\ Len(st.builder.diffBuilder.NewLines) = Len(st.in.new)
    /\ \E pick \in 1..StreamChanges :
           LET r == Finalize(st.builder, OldDoc, st.in, 1, pick)
           IN st' = [st EXCEPT !.phase = "streamed", !.stages = r.Stages,
                               !.firstNeedsNavigation = r.FirstNeedsNavigation]
    /\ UNCHANGED <<engineVars, sg, pa, fs, mu, lp, restVars>>

NextStream == BatchStage \/ StreamLine \/ StreamEnd

SpecStream == InitStream /\ [][NextStream]_vars

NextStager == BatchStage

SpecStager == InitStager /\ [][NextStager]_vars

\* whether CreateStages sees the change under key k inside the viewport
C21_Visible(k) ==
    LET bufferLine == GetBufferLineForChange(st.diff.Changes[k], k, 1,
                                             st.diff.NewToOld)
    IN \/ st.in.viewportTop = 0 /\ st.in.viewportBottom = 0
       \/ bufferLine >= st.in.viewportTop /\ bufferLine <= st.in.viewportBottom

\* the changes of each cluster form a chain of steps of at most T lines
C21_Chained ==
    \A a \in 1..Len(st.clusters) :
        \A x \in st.clusters[a].Changes :
            \/ \A y \in st.clusters[a].Changes : x <= y
            \/ \E y \in st.clusters[a].Changes :
                   y < x /\ x - y <= st.in.proximityThreshold

\* C21 as stated: in a result of the batch stager with threshold T, two
\* changes in distinct clusters differ in line number by more than T, and the
\* changes of one cluster form a chain of steps of at most T lines.
C21_ClustersSeparated ==
    st.phase = "batch"
        => /\ \A a, b \in 1..Len(st.clusters) :
                  a # b => \A x \in st.clusters[a].Changes,
                              y \in st.clusters[b].Changes :
                               x - y > st.in.proximityThreshold
                                   \/ y - x > st.in.proximityThreshold
           /\ C21_Chained

\* C21 amended: the changes of one cluster are all inside or all outside the
\* viewport and form a chain of steps of at most T lines; two changes in
\* distinct clusters that are both inside or both outside the viewport differ
\* in line number by more than T.
C21_ClustersSeparatedPerPartition ==
    st.phase = "batch"
        => /\ \A a, b \in 1..Len(st.clusters) :
                  \A x \in st.clusters[a].Changes, y \in st.clusters[b].Changes :
                      IF a = b THEN C21_Visible(x) = C21_Visible(y)
                      ELSE C21_Visible(x) = C21_Visible(y)
                               => \/ x - y > st.in.proximityThreshold
                                  \/ y - x > st.in.proximityThreshold
           /\ C21_Chained
           /\ UNION { st.clusters[a].Changes : a \in 1..Len(st.clusters) }
                  = DOMAIN st.diff.Changes

\* two clusters on the same side of the viewport edge
C21_Witness ==
    /\ st.phase = "batch"
    /\ st.in.viewportTop > 0
    /\ Len(st.clusters) = 2
    /\ \A x \in st.clusters[1].Changes, y \in st.clusters[2].Changes :
           C21_Visible(x) = C21_Visible(y)

\* twice the distance of the cursor row from the middle of stage i's buffer
\* range
C22_MidDistance2(i) ==
    LET d == 2 * st.in.cursorRow - (st.stages[i].BufferStart + st.stages[i].BufferEnd)
    IN IF d < 0 THEN -d ELSE d

\* the distance of the cursor row from stage i's buffer range: 0 inside it,
\* else the distance to its nearer end
C22_EdgeDistance(i) ==
    IF st.in.cursorRow < st.stages[i].BufferStart
    THEN st.stages[i].BufferStart - st.in.cursorRow
    ELSE IF st.in.cursorRow > st.stages[i].BufferEnd
    THEN st.in.cursorRow - st.stages[i].BufferEnd
    ELSE 0

\* C22 as stated: the stages of the batch stager are in non-decreasing order
\* of |cursor row - midpoint of the cluster's buffer range|, clusters at equal
\* distance in ascending order of their start line.
C22_SortedByMidpoint ==
    st.phase = "batch"
        => \A i, j \in 1..Len(st.stages) :
               i < j => \/ C22_MidDistance2(i) < C22_MidDistance2(j)
                        \/ /\ C22_MidDistance2(i) = C22_MidDistance2(j)
                           /\ st.clusters[i].StartLine < st.clusters[j].StartLine

\* C22 amended: the stages are in non-decreasing order of the distance of the
\* cursor row from the cluster's buffer range (0 when the cursor is inside the
\* range, else the distance to its nearer end), clusters at equal distance in
\* ascending order of their start line.
C22_SortedByEdgeDistance ==
    st.phase = "batch"
        => \A i, j \in 1..Len(st.stages) :
               i < j => \/ C22_EdgeDistance(i) < C22_EdgeDistance(j)
                        \/ /\ C22_EdgeDistance(i) = C22_EdgeDistance(j)
                           /\ st.clusters[i].StartLine < st.clusters[j].StartLine

\* the nearer of two stages comes first although it starts on a later line,
\* and two stages at the same distance come in the order of their lines
C22_Witness ==
    /\ st.phase = "batch"
    /\ Len(st.stages) = 3
    /\ \E i \in 1..2 :
           /\ C22_EdgeDistance(i) < C22_EdgeDistance(i + 1)
           /\ st.clusters[i].StartLine > st.clusters[i + 1].StartLine
    /\ \E i \in 1..2 : C22_EdgeDistance(i) = C22_EdgeDistance(i + 1)

\* the changes of stage s that group g covers
C25_Covered(s, g) ==
    { k \in DOMAIN s.Changes : k >= g.StartLine /\ k <= g.EndLine }

\* C25: every group of a stage either carries a render hint and holds exactly
\* one change, or holds only changes of one kind on consecutive line numbers;
\* no group holds a deletion.
C25_GroupsWellFormed ==
    st.phase \in {"batch", "streamed"}
        => \A i \in 1..Len(st.stages) :
               \A q \in 1..Len(st.stages[i].Groups) :
                   LET s == st.stages[i]
                       g == s.Groups[q]
                   IN /\ g.StartLine <= g.EndLine
                      /\ C25_Covered(s, g) = g.StartLine..g.EndLine
                      /\ Len(g.Lines) = g.EndLine - g.StartLine + 1
                      /\ \A k \in C25_Covered(s, g) :
                             /\ s.Changes[k].Type # "deletion"
                             /\ GroupType(s.Changes[k].Type) = g.Type
                             /\ g.Lines[k - g.StartLine + 1] = s.Changes[k].Content
                      /\ g.RenderHint # "" => g.StartLine = g.EndLine

\* a stage with a hinted group, a group of two lines and a deletion
C25_Witness ==
    /\ st.phase = "batch"
    /\ \E i \in 1..Len(st.stages) :
           /\ \E q \in 1..Len(st.stages[i].Groups) :
                  st.stages[i].Groups[q].RenderHint # ""
           /\ \E q \in 1..Len(st.stages[i].Groups) :
                  st.stages[i].Groups[q].EndLine > st.stages[i].Groups[q].StartLine
    /\ \E i \in 1..Len(st.stages) :
           \E k \in DOMAIN st.stages[i].Changes :
               st.stages[i].Changes[k].Type = "deletion"

\* C26: in every stage either cursor_line = cursor_col = -1, or cursor_line is
\* one of the stage's new lines and cursor_col lies within that line.
C26_CursorWithinStage ==
    st.phase \in {"batch", "streamed"}
        => \A i \in 1..Len(st.stages) :
               LET s == st.stages[i]
               IN \/ s.CursorLine = -1 /\ s.CursorCol = -1
                  \/ /\ s.CursorLine >= 1 /\ s.CursorLine <= Len(s.Lines)
                     /\ s.CursorCol >= 0
                     /\ s.CursorCol <= len(s.Lines[s.CursorLine])

\* one stage without a cursor position, one with the cursor on a line that
\* lost characters
C26_Witness ==
    /\ st.phase = "batch"
    /\ \E i \in 1..Len(st.stages) : st.stages[i].CursorLine = -1
    /\ \E i \in 1..Len(st.stages) :
           LET s == st.stages[i]
           IN /\ s.CursorLine \in DOMAIN s.Changes
              /\ s.Changes[s.CursorLine].Type = "delete_chars"

\* C23: in every staging result, of the batch stager or of the streaming
\* Finalize, exactly the final stage has is_last_stage and should_retrigger
\* set, and every earlier stage aims the cursor, without retrigger, at the
\* buffer_start of the stage after it.
C23_LastStageAndTargets ==
    st.phase \in {"batch", "streamed"}
        => \A i \in 1..Len(st.stages) :
               /\ st.stages[i].IsLastStage = (i = Len(st.stages))
               /\ st.stages[i].CursorTarget.ShouldRetrigger = (i = Len(st.stages))
               /\ i < Len(st.stages)
                      => st.stages[i].CursorTarget.LineNumber
                             = st.stages[i + 1].BufferStart

\* a streamed result of two stages, the one further down the text first
C23_Witness ==
    /\ st.phase = "streamed"
    /\ Len(st.stages) = 2
    /\ st.stages[1].startLine > st.stages[2].startLine
    /\ st.stages[1].CursorTarget.LineNumber = st.stages[2].BufferStart

\* the distance between two buffer lines
C24_Distance(a, b) == IF a > b THEN a - b ELSE b - a

C27_Finalized ==
    IF "builder" \notin DOMAIN st THEN {}
    ELSE { st.builder.finalizedStages[i] :
             i \in 1..Len(st.builder.finalizedStages) }
         \cup (IF st.phase = "streamed"
               THEN { [startLine |-> st.stages[i].startLine,
                       bufferLines |-> st.stages[i].bufferLines,
                       BufferStart |-> st.stages[i].BufferStart,
                       BufferEnd |-> st.stages[i].BufferEnd,
                       Lines |-> st.stages[i].Lines,
                       Changes |-> st.stages[i].Changes,
                       Groups |-> st.stages[i].Groups,
                       CursorLine |-> st.stages[i].CursorLine,
                       CursorCol |-> st.stages[i].CursorCol] :
                        i \in 1..Len(st.stages) }
               ELSE {})

\* C27: a group whose change carries a render hint (append_chars,
\* replace_chars or delete_chars) loses the hint when it is anchored on the
\* cursor row and the cursor column is past its col_start, and keeps it
\* otherwise.
C27_HintDowngraded ==
    \A s \in C27_Finalized :
        \A q \in 1..Len(s.Groups) :
            LET g == s.Groups[q]
                hint == RenderHint(s.Changes[g.StartLine].Type)
            IN hint # ""
                  => g.RenderHint =
                         IF g.BufferLine = st.in.cursorRow
                               /\ st.in.cursorCol > g.ColStart
                         THEN "" ELSE hint

(***************************************************************************)
(* Stop racing the callbacks, the timers and the goroutines (SpecRace).    *)
(* Stop runs under the lock in three steps: it marks the engine stopped,   *)
(* cancels and clears, and closes the channel.  A callback reads stopped   *)
(* under the read lock and selects afterwards without the lock; a          *)
(* goroutine builds its request and selects without the lock.              *)
(***************************************************************************)
\* how many times the editor calls the "cursortab_event" handler
RacePosts == 2

\* the threads that send after a check of stopped
Senders == {"editor", "idle", "textChange"}

raceRest == <<sg, pa, fs, lp, st, ac, cl, tc>>

RaceStart ==
    [phase |-> "on", calls |-> 0,
     senders |-> [t \in Senders |-> <<>>],
     stop |-> "no", closed |-> FALSE, loop |-> "running",
     req |-> <<>>, pf |-> <<>>, sentOnClosed |-> {}]

\* the goroutine of requestCompletion as spawned: the cursor row of the buffer
\* at the go statement, and the row its CompletionRequest will carry
SpawnedRequest(e) == [at |-> e.bufRow, built |-> FALSE, used |-> 0]

\* the goroutine of requestPrefetch as spawned: lines holds a copy of the
\* buffer's lines
SpawnedPrefetch(e) == [at |-> e.bufLines, built |-> FALSE, used |-> <<>>]

\* the goroutines a handler started
Spawned(r, e) ==
    [r EXCEPT
       !.req = @ \o [i \in 1..(Len(e.reqs) - Len(@)) |-> SpawnedRequest(e)],
       !.pf = @ \o [i \in 1..(Len(e.pfs) - Len(@)) |-> SpawnedPrefetch(e)]]

\* e.stopped = true, with the lock taken
RaceStopMark ==
    /\ rc.phase = "on"
    /\ rc.stop = "no"
    /\ mu = "free"
    /\ mu' = "held"
    /\ Install([Cur EXCEPT !.stopped = TRUE])
    /\ rc' = [rc EXCEPT !.stop = "marked"]
    /\ UNCHANGED raceRest

\* mainCancel, the two cancels, the timers and the fields
RaceStopCancel ==
    /\ rc.phase = "on"
    /\ rc.stop = "marked"
    /\ LET e1 == [Cur EXCEPT !.mainCtxDone = TRUE,
                             !.reqs = CancelAll(@), !.pfs = CancelAll(@)]
           e2 == CancelPrefetch(CancelCurrent(e1))
       IN Install(clearStateUnsafe(stopTextChangeTimer(stopIdleTimer(e2))))
    /\ rc' = [rc EXCEPT !.stop = "cancelled"]
    /\ UNCHANGED <<mu, raceRest>>

\* close(e.eventChan), and the deferred Unlock
RaceStopClose ==
    /\ rc.phase = "on"
    /\ rc.stop = "cancelled"
    /\ rc' = [rc EXCEPT !.stop = "closed", !.closed = TRUE]
    /\ mu' = "free"
    /\ UNCHANGED <<engineVars, raceRest>>

\* the first half of a callback: stopped is read under the read lock, and the
\* callback returns when it is set
Checked(r, t, ev) ==
    IF stopped THEN r ELSE [r EXCEPT !.senders[t] = <<ev>>]

\* the handler of "cursortab_event" is called
RaceEditorCheck(ev) ==
    /\ rc.phase = "on"
    /\ rc.calls < RacePosts
    /\ rc.senders["editor"] = <<>>
    /\ mu = "free"
    /\ \E r \in (IF ev = EventCursorMovedNormal THEN Rows ELSE {edRow}) :
          Install([Cur EXCEPT !.edRow = r])
    /\ rc' = [Checked(rc, "editor", ev) EXCEPT !.calls = @ + 1]
    /\ UNCHANGED <<mu, raceRest>>

\* the callback of the idle timer runs
RaceIdleCheck ==
    /\ rc.phase = "on"
    /\ idleTimer > 0
    /\ rc.senders["idle"] = <<>>
    /\ mu = "free"
    /\ Install([Cur EXCEPT !.idleTimer = @ - 1])
    /\ rc' = Checked(rc, "idle", EventIdleTimeout)
    /\ UNCHANGED <<mu, raceRest>>

\* the callback of the text change timer runs
RaceTextChangeCheck ==
    /\ rc.phase = "on"
    /\ textChangeTimer > 0
    /\ rc.senders["textChange"] = <<>>
    /\ mu = "free"
    /\ Install([Cur EXCEPT !.textChangeTimer = @ - 1])
    /\ rc' = Checked(rc, "textChange", EventTextChangeTimeout)
    /\ UNCHANGED <<mu, raceRest>>

\* the select of a callback takes its send case: the send goes through when
\* the channel has room, and a send on the closed channel panics
RaceSend(t) ==
    /\ rc.phase = "on"
    /\ rc.senders[t] # <<>>
    /\ IF rc.closed
       THEN /\ rc' = [rc EXCEPT !.senders[t] = <<>>,
                                !.sentOnClosed = @ \cup {rc.senders[t][1]}]
            /\ UNCHANGED engineVars
       ELSE /\ Room
            /\ Install([Cur EXCEPT !.eventChan =
                   Append(@, [Type |-> rc.senders[t][1], Data |-> ""])])
            /\ rc' = [rc EXCEPT !.senders[t] = <<>>]
    /\ UNCHANGED <<mu, raceRest>>

\* the select of a callback takes <-mainCtx.Done()
RaceDone(t) ==
    /\ rc.phase = "on"
    /\ rc.senders[t] # <<>>
    /\ mainCtxDone
    /\ rc' = [rc EXCEPT !.senders[t] = <<>>]
    /\ UNCHANGED <<engineVars, mu, raceRest>>

\* the goroutine of requestCompletion builds its CompletionRequest: it reads
\* e.buffer.Row as it is now
RaceRequestBuild(i) ==
    /\ rc.phase = "on"
    /\ ~rc.req[i].built
    /\ rc' = [rc EXCEPT !.req[i].built = TRUE, !.req[i].used = bufRow]
    /\ UNCHANGED <<engineVars, mu, raceRest>>

\* the goroutine of requestPrefetch builds its CompletionRequest from the
\* copies made before the go statement
RacePrefetchBuild(i) ==
    /\ rc.phase = "on"
    /\ ~rc.pf[i].built
    /\ rc' = [rc EXCEPT !.pf[i].built = TRUE, !.pf[i].used = rc.pf[i].at]
    /\ UNCHANGED <<engineVars, mu, raceRest>>

\* the select of the goroutine of requestCompletion takes its send case
RaceRequestSend(i) ==
    /\ rc.phase = "on"
    /\ rc.req[i].built
    /\ reqs[i].phase = "running"
    /\ \E outcome \in Outcomes(reqs[i]) :
          With(WorkerEvent(outcome, EventCompletionReady, EventCompletionError),
               LAMBDA ev :
                 IF rc.closed
                 THEN /\ Install([Cur EXCEPT !.reqs[i].phase = "exited"])
                      /\ rc' = [rc EXCEPT !.sentOnClosed = @ \cup {ev.Type}]
                 ELSE /\ Room
                      /\ Install([Cur EXCEPT !.reqs[i] = AfterPost(@),
                                             !.eventChan = Append(@, ev)])
                      /\ rc' = rc)
    /\ UNCHANGED <<mu, raceRest>>

\* that select takes <-e.mainCtx.Done()
RaceRequestDone(i) ==
    /\ rc.phase = "on"
    /\ rc.req[i].built
    /\ reqs[i].phase = "running"
    /\ mainCtxDone
    /\ Install([Cur EXCEPT !.reqs[i].phase = "exited"])
    /\ UNCHANGED <<rc, mu, raceRest>>

\* the same two cases of the goroutine of requestPrefetch
RacePrefetchSend(i) ==
    /\ rc.phase = "on"
    /\ rc.pf[i].built
    /\ pfs[i].phase = "running"
    /\ \E outcome \in Outcomes(pfs[i]) :
          With(WorkerEvent(outcome, EventPrefetchReady, EventPrefetchError),
               LAMBDA ev :
                 IF rc.closed
                 THEN /\ Install([Cur EXCEPT !.pfs[i].phase = "exited"])
                      /\ rc' = [rc EXCEPT !.sentOnClosed = @ \cup {ev.Type}]
                 ELSE /\ Room
                      /\ Install([Cur EXCEPT !.pfs[i] = AfterPost(@),
                                             !.eventChan = Append(@, ev)])
                      /\ rc' = rc)
    /\ UNCHANGED <<mu, raceRest>>

RacePrefetchDone(i) ==
    /\ rc.phase = "on"
    /\ rc.pf[i].built
    /\ pfs[i].phase = "running"
    /\ mainCtxDone
    /\ Install([Cur EXCEPT !.pfs[i].phase = "exited"])
    /\ UNCHANGED <<rc, mu, raceRest>>

\* the events handleEvent may be given for the head of the channel: a result
\* is whatever the provider answered
RaceEvents(ev, e) ==
    IF ev.Type = EventCompletionReady
    THEN { [Type |-> ev.Type, Data |-> r] :
             r \in { x \in PlainResponses : NearestFirst(e.bufRow, x) } }
    ELSE IF ev.Type = EventPrefetchReady
    THEN { [Type |-> ev.Type, Data |-> r] : r \in PlainResponses }
    ELSE {ev}

\* a turn of eventLoop that receives: it returns when the engine is stopped
\* and calls handleEvent, which takes the lock, otherwise
RaceHandle ==
    /\ rc.phase = "on"
    /\ rc.loop = "running"
    /\ eventChan # <<>>
    /\ mu = "free"
    /\ IF stopped
       THEN /\ Install(Dequeued)
            /\ rc' = [rc EXCEPT !.loop = "exited"]
       ELSE \E event \in RaceEvents(Head(eventChan), Dequeued) :
               With(handleEvent(Dequeued, event),
                    LAMBDA e :
                      /\ Len(e.reqs) <= MaxReqs
                      /\ Len(e.pfs) <= MaxPrefetch
                      /\ Install(e)
                      /\ rc' = Spawned(rc, e))
    /\ UNCHANGED <<mu, raceRest>>

\* a turn of eventLoop that takes <-ctx.Done(), or that receives from the
\* closed and drained channel
RaceLoopReturns ==
    /\ rc.phase = "on"
    /\ rc.loop = "running"
    /\ mainCtxDone \/ (rc.closed /\ eventChan = <<>>)
    /\ rc' = [rc EXCEPT !.loop = "exited"]
    /\ UNCHANGED <<engineVars, mu, raceRest>>

InitRace ==
    /\ Load([NewEngine EXCEPT !.n = TRUE, !.edLines = [i \in Rows |-> 0]])
    /\ mu = "free"
    /\ sg = NoStaging
    /\ pa = NoPartial
    /\ fs = NoFiles
    /\ lp = NoLoop
    /\ st = NoStager
    /\ rc = RaceStart
    /\ ac = NoAccept
    /\ cl = NoClear
    /\ tc = NoTruncate

NextRace ==
    \/ RaceStopMark
    \/ RaceStopCancel
    \/ RaceStopClose
    \/ \E ev \in EditorEvents : RaceEditorCheck(ev)
    \/ RaceIdleCheck
    \/ RaceTextChangeCheck
    \/ \E t \in Senders : RaceSend(t)
    \/ \E t \in Senders : RaceDone(t)
    \/ \E i \in 1..Len(reqs) : RaceRequestBuild(i)
    \/ \E i \in 1..Len(pfs) : RacePrefetchBuild(i)
    \/ \E i \in 1..Len(reqs) : RaceRequestSend(i)
    \/ \E i \in 1..Len(reqs) : RaceRequestDone(i)
    \/ \E i \in 1..Len(pfs) : RacePrefetchSend(i)
    \/ \E i \in 1..Len(pfs) : RacePrefetchDone(i)
    \/ RaceHandle
    \/ RaceLoopReturns

SpecRace == InitRace /\ [][NextRace]_vars

\* C31: under every interleaving of Stop with the editor callback, the timer
\* callbacks and the request and prefetch goroutines, nothing is sent on the
\* event channel after Stop closed it.
C31_NoSendAfterClose == rc.phase = "on" => rc.sentOnClosed = {}

\* C32: once Stop has marked the engine stopped, no timer callback posts an
\* IdleTimeout or TextChangeTimeout event, and no turn of the event loop
\* changes the engine's state.
C32_StoppedIsQuiet ==
    [][(rc.phase = "on" /\ stopped)
          => /\ Len(eventChan') > Len(eventChan)
                  => eventChan'[Len(eventChan')].Type
                         \notin {EventIdleTimeout, EventTextChangeTimeout}
             /\ Len(eventChan') < Len(eventChan)
                  => Cur' = [Cur EXCEPT !.eventChan = Tail(@)]]_vars

\* C33: the request a goroutine sends to the provider carries what the buffer
\* held when the goroutine was spawned under the lock: it reads nothing of the
\* engine or the buffer afterwards.
C33_WorkersUseSnapshots ==
    rc.phase = "on"
       => /\ \A i \in 1..Len(rc.req) :
                rc.req[i].built => rc.req[i].used = rc.req[i].at
          /\ \A i \in 1..Len(rc.pf) :
                rc.pf[i].built => rc.pf[i].used = rc.pf[i].at

(***************************************************************************)
(* The wait for a prefetch after Tab (SpecLive): the engine of Spec with   *)
(* an editor that calls its handler LivePosts times, under the scheduling  *)
(* of the Go runtime: the event loop runs whenever the channel holds an    *)
(* event, and a goroutine blocked in its send is served in turn.           *)
(***************************************************************************)
\* how many times the editor calls the "cursortab_event" handler
LivePosts == 4

\* what the editor reports in SpecLive: typing, Tab and Esc (none of them
\* arms the idle timer)
LiveEvents == {EventTextChanged, EventTab, EventEsc}

LiveStart == [phase |-> "live", calls |-> 0]

\* the handler of "cursortab_event", called by the editor
LivePost(ev) ==
    /\ rc.phase = "live"
    /\ rc.calls < LivePosts
    /\ n
    /\ ~stopped
    /\ ~mainCtxDone
    /\ Room
    /\ \E r \in (IF ev = EventCursorMovedNormal THEN Rows ELSE {edRow}) :
          Install([Cur EXCEPT !.edRow = r,
                              !.eventChan = Append(@, [Type |-> ev, Data |-> ""])])
    /\ rc' = [rc EXCEPT !.calls = @ + 1]
    /\ UNCHANGED <<mu, raceRest>>

\* a turn of eventLoop: handleEvent on the head of the channel
LiveHandle ==
    /\ rc.phase = "live"
    /\ ~stopped
    /\ eventChan # <<>>
    /\ \E event \in RaceEvents(Head(eventChan), Dequeued) :
          \E e \in {handleEvent(Dequeued, event)} : Install(e)
    /\ UNCHANGED <<rc, mu, raceRest>>

\* the select of a prefetch goroutine sends
LivePrefetchPosts == \E i \in 1..Len(pfs) : PrefetchPosts(i)

InitLive ==
    /\ Load([NewEngine EXCEPT !.n = TRUE, !.edLines = [i \in Rows |-> 0]])
    /\ mu = "free"
    /\ sg = NoStaging
    /\ pa = NoPartial
    /\ fs = NoFiles
    /\ lp = NoLoop
    /\ st = NoStager
    /\ rc = LiveStart
    /\ ac = NoAccept
    /\ cl = NoClear
    /\ tc = NoTruncate

NextLive ==
    \/ \E ev \in LiveEvents : LivePost(ev)
    \/ TextChangeTimerFire
    \/ \E i \in 1..Len(reqs) : RequestPosts(i)
    \/ \E i \in 1..Len(reqs) : RequestExits(i)
    \/ LivePrefetchPosts
    \/ \E i \in 1..Len(pfs) : PrefetchExits(i)
    \/ LiveHandle
    \/ Stop

SpecLive ==
    /\ InitLive
    /\ [][NextLive]_vars
    /\ WF_vars(LiveHandle)
    /\ SF_vars(LivePrefetchPosts)

\* C34: whenever the engine waits for a prefetch after Tab, it leaves the
\* wait: the PrefetchReady or PrefetchError of a prefetch is handled and the
\* deferred accept goes on, or a reject or Stop clears the wait.
C34_WaitEnds == waitingForPrefetchOnTab ~> ~waitingForPrefetchOnTab

C34_Witness ==
    /\ rc.phase = "live"
    /\ waitingForPrefetchOnTab
    /\ prefetchInProgress
    /\ state = stateHasCursorTarget

(***************************************************************************)
(* Accepting a completion whose batch may fail (SpecAccept): the buffer    *)
(* holds its lines, the replace batch and the pending edit that            *)
(* OnCompletionReady built, and the file's diff history.                   *)
(***************************************************************************)
\* the lines of the buffer in SpecAccept
AccLines == 2

\* the accepts of one run
MaxCommits == 2

AcceptStart ==
    [phase |-> "idle", lines |-> [i \in 1..AccLines |-> 0],
     applyBatch |-> <<>>, pending |-> <<>>, DiffHistories |-> <<>>,
     fileDiffStore |-> <<>>, executed |-> "none"]

\* the completions shown: one line of the buffer rewritten, or a line added
\* after it
AcceptCompletions ==
    { [StartLine |-> s, EndLineInc |-> s, Lines |-> ls] :
        s \in 1..AccLines, ls \in {<<1>>, <<2>>, <<1, 2>>} }

\* Buffer.OnCompletionReady: the replace batch is built and not applied, with
\* the edit it would make pending
BufferOnCompletionReady(a, c) ==
    [a EXCEPT !.phase = "shown",
              !.applyBatch = <<Batch(c)>>,
              !.pending = <<[original |-> SubSeq(a.lines, c.StartLine,
                                                  c.EndLineInc),
                             updated |-> c.Lines]>>,
              !.executed = "none"]

\* Buffer.CommitPendingEdit: {original, updated} is appended to the file's
\* diff history
CommitPendingEdit(a) ==
    IF a.pending = <<>> THEN a
    ELSE [a EXCEPT !.DiffHistories = Append(@, a.pending[1]),
                   !.pending = <<>>]

\* Batch.Execute: the lines are replaced, or the editor refuses the batch
BatchExecute(a, ok) ==
    IF ok
    THEN [a EXCEPT !.lines = ReplaceLines(@, a.applyBatch[1].start,
                                          a.applyBatch[1].endInc,
                                          a.applyBatch[1].lines),
                   !.executed = "ok"]
    ELSE [a EXCEPT !.executed = "err"]

\* acceptCompletion up to clearCompletionStateExceptPrefetch: an error of
\* Execute is logged and the rest runs
acceptCompletionCommits(a, ok) ==
    With(CommitPendingEdit(IF a.applyBatch # <<>> THEN BatchExecute(a, ok)
                           ELSE a),
         LAMBDA b :
           [b EXCEPT !.fileDiffStore = IF Len(b.DiffHistories) > 0
                                       THEN b.DiffHistories ELSE @,
                     !.applyBatch = <<>>,
                     !.phase = "idle"])

accRest == <<engineVars, sg, pa, fs, mu, lp, st, rc, cl, tc>>

\* a completion arrives and is shown
AcceptShown(c) ==
    /\ ac.phase = "idle"
    /\ Len(ac.DiffHistories) < MaxCommits
    /\ SubSeq(ac.lines, c.StartLine, c.EndLineInc) # c.Lines
    /\ ac' = BufferOnCompletionReady(ac, c)
    /\ UNCHANGED accRest

\* Tab: handleTab calls acceptCompletion
AcceptTab(ok) ==
    /\ ac.phase = "shown"
    /\ ac' = acceptCompletionCommits(ac, ok)
    /\ UNCHANGED accRest

InitAccept ==
    /\ EngineInit
    /\ config = NewEngine.config
    /\ mu = "free"
    /\ sg = NoStaging
    /\ pa = NoPartial
    /\ fs = NoFiles
    /\ lp = NoLoop
    /\ st = NoStager
    /\ rc = NoRace
    /\ ac = AcceptStart
    /\ cl = NoClear
    /\ tc = NoTruncate

NextAccept ==
    \/ \E c \in AcceptCompletions : AcceptShown(c)
    \/ \E ok \in BOOLEAN : AcceptTab(ok)

SpecAccept == InitAccept /\ [][NextAccept]_vars

\* C35: during accept the pending edit is committed to the file's diff
\* history only after the replace batch was applied successfully; when
\* applying the batch fails nothing is committed.
C35_CommitOnlyAfterApply ==
    [][(ac.phase = "shown" /\ ac'.phase = "idle")
          => IF ac'.executed = "ok"
             THEN ac'.DiffHistories = Append(ac.DiffHistories, ac.pending[1])
             ELSE /\ ac'.DiffHistories = ac.DiffHistories
                  /\ ac'.fileDiffStore = ac.fileDiffStore]_vars

(***************************************************************************)
(* clearState and clearAll of engine.go (SpecClear): the fields they       *)
(* touch, in any combination, and every choice of options.                 *)
(***************************************************************************)
prefetchNone == "none"
prefetchInFlight == "inFlight"
prefetchReady == "ready"

\* the fields of the Engine that clearState reads or writes; a cancel
\* function is nil (FALSE) or set, and calling it is counted
ClearFields ==
    [currentCancel : BOOLEAN, prefetchCancel : BOOLEAN,
     completions : {<<>>, <<Completion(1)>>},
     stagedCompletion : {<<>>, <<[CurrentIdx |-> 0]>>},
     cursorTarget : {<<>>, <<Target(NumLines, FALSE)>>},
     prefetchedCompletions : {<<>>, <<Completion(NumLines)>>},
     prefetchState : {prefetchNone, prefetchInFlight, prefetchReady}]

\* an engine showing what its fields hold
ClearEngine(f) ==
    [currentCancel |-> f.currentCancel, prefetchCancel |-> f.prefetchCancel,
     completions |-> f.completions,
     applyBatch |-> IF f.completions = <<>> THEN <<>>
                    ELSE <<Batch(f.completions[1])>>,
     stagedCompletion |-> f.stagedCompletion,
     cursorTarget |-> f.cursorTarget,
     prefetchedCompletions |-> f.prefetchedCompletions,
     prefetchedCursorTarget |-> IF f.prefetchedCompletions = <<>> THEN <<>>
                                ELSE <<Target(NumLines, TRUE)>>,
     prefetchState |-> f.prefetchState,
     uiShown |-> f.completions # <<>> \/ f.cursorTarget # <<>>,
     cancelled |-> {}]

ClearOptions ==
    [CancelCurrent : BOOLEAN, CancelPrefetch : BOOLEAN, ClearStaged : BOOLEAN,
     ClearCursorTarget : BOOLEAN, CallOnReject : BOOLEAN]

clearState(e, opts) ==
    With(IF opts.CancelCurrent /\ e.currentCancel
         THEN [e EXCEPT !.cancelled = @ \cup {"current"},
                        !.currentCancel = FALSE]
         ELSE e,
      LAMBDA e1 :
    With(IF opts.CancelPrefetch /\ e1.prefetchCancel
         THEN [e1 EXCEPT !.cancelled = @ \cup {"prefetch"},
                         !.prefetchCancel = FALSE,
                         !.prefetchState = prefetchNone,
                         !.prefetchedCompletions = <<>>,
                         !.prefetchedCursorTarget = <<>>]
         ELSE e1,
      LAMBDA e2 :
        [e2 EXCEPT !.cursorTarget = IF opts.ClearCursorTarget THEN <<>> ELSE @,
                   !.uiShown = IF opts.CallOnReject THEN FALSE ELSE @,
                   !.completions = <<>>,
                   !.applyBatch = <<>>,
                   !.stagedCompletion = IF opts.ClearStaged THEN <<>> ELSE @]))

clearAll(e) ==
    clearState(e, [CancelCurrent |-> TRUE, CancelPrefetch |-> TRUE,
                   ClearStaged |-> TRUE, ClearCursorTarget |-> TRUE,
                   CallOnReject |-> TRUE])

clearRest == <<engineVars, sg, pa, fs, mu, lp, st, rc, ac, tc>>

\* clearState is called with some options
ClearStateCalled(opts) ==
    /\ cl.phase = "set"
    /\ cl' = [phase |-> "cleared", all |-> FALSE, opts |-> opts,
              before |-> cl.e, e |-> clearState(cl.e, opts)]
    /\ UNCHANGED clearRest

\* clearAll is called
ClearAllCalled ==
    /\ cl.phase = "set"
    /\ cl' = [phase |-> "cleared", all |-> TRUE, opts |-> <<>>,
              before |-> cl.e, e |-> clearAll(cl.e)]
    /\ UNCHANGED clearRest

InitClear ==
    /\ EngineInit
    /\ config = NewEngine.config
    /\ mu = "free"
    /\ sg = NoStaging
    /\ pa = NoPartial
    /\ fs = NoFiles
    /\ lp = NoLoop
    /\ st = NoStager
    /\ rc = NoRace
    /\ ac = NoAccept
    /\ \E f \in ClearFields : cl = [phase |-> "set", e |-> ClearEngine(f)]
    /\ tc = NoTruncate

NextClear ==
    \/ \E opts \in ClearOptions : ClearStateCalled(opts)
    \/ ClearAllCalled

SpecClear == InitClear /\ [][NextClear]_vars

\* C36: after clearAll, whatever the engine held, completions, the pending
\* batch, stagedCompletion, cursorTarget and the prefetched completions are
\* empty and the prefetch sub-state is none; clearState with ClearStaged =
\* false keeps stagedCompletion and still clears completions.
C36_ClearAllClears ==
    cl.phase = "cleared"
       => /\ cl.all
             => /\ cl.e.completions = <<>>
                /\ cl.e.applyBatch = <<>>
                /\ cl.e.stagedCompletion = <<>>
                /\ cl.e.cursorTarget = <<>>
                /\ cl.e.prefetchedCompletions = <<>>
                /\ cl.e.prefetchState = prefetchNone
          /\ (~cl.all /\ ~cl.opts.ClearStaged)
             => /\ cl.e.stagedCompletion = cl.before.stagedCompletion
                /\ cl.e.completions = <<>>

(***************************************************************************)
(* Switching to a file with a stored state (SpecSwitch): the stored        *)
(* FileState of the new file, the lines the buffer now shows, and the      *)
(* context the buffer is given.                                            *)
(***************************************************************************)
\* the line counts of the stored original and of the current file: short
\* files, a drift of ten and of eleven lines, and files long enough for a
\* tenth of the original to exceed ten
FileLens == {0, 1, 2, 3, 13, 14, 120, 132, 133}

\* the lines the check samples in a file of count lines: first, middle, last
SamplePoints(count) == {1, (count \div 2) + 1, count} \cap 1..count

\* a file of count lines that differs from the all-zero file on the lines marked
FileLines(count, marked) == [i \in 1..count |-> IF i \in marked THEN 1 ELSE 0]

FileContents ==
    UNION { { FileLines(count, marked) : marked \in SUBSET SamplePoints(count) } :
            count \in FileLens }

Abs(x) == IF x < 0 THEN 0 - x ELSE x

isFileStateValid(stored, currentLines) ==
    IF Len(stored.OriginalLines) = 0 THEN FALSE
    ELSE With(Len(stored.OriginalLines), LAMBDA origLen :
         With(Len(currentLines), LAMBDA currLen :
           IF origLen # currLen
                 /\ Abs(origLen - currLen) > Max(origLen \div 10, 10)
           THEN FALSE
           ELSE With(IF currLen > 2
                     THEN <<0, currLen \div 2, currLen - 1>>
                     ELSE <<0>>,
                     LAMBDA checkIndices :
                       Cardinality({ k \in 1..Len(checkIndices) :
                           /\ checkIndices[k] < origLen
                           /\ checkIndices[k] < currLen
                           /\ stored.OriginalLines[checkIndices[k] + 1]
                                 # currentLines[checkIndices[k] + 1] })
                          <= Len(checkIndices) \div 2)))

\* Buffer.SetFileContext
SetFileContext(buf, previous, original, diffs) ==
    [buf EXCEPT !.PreviousLines = previous, !.OriginalLines = original,
                !.DiffHistories = diffs]

\* newFileStateFromBuffer
newFileStateFromBuffer(f) ==
    [PreviousLines |-> f.buffer.PreviousLines,
     DiffHistories |-> f.buffer.DiffHistories,
     OriginalLines |-> f.buffer.OriginalLines,
     LastAccessNs |-> f.clock]

\* handleFileSwitch with the states of the files and the buffer's context
handleFileSwitchContext(f, oldPath, newPath, currentLines) ==
    IF oldPath = newPath THEN [f EXCEPT !.restored = FALSE]
    ELSE With(IF oldPath # ""
              THEN [p \in DOMAIN f.store \cup {oldPath} |->
                      IF p = oldPath THEN newFileStateFromBuffer(f)
                      ELSE f.store[p]]
              ELSE f.store,
         LAMBDA s1 :
           IF newPath \in DOMAIN s1 /\ isFileStateValid(s1[newPath], currentLines)
           THEN [f EXCEPT
                   !.store = [s1 EXCEPT ![newPath].LastAccessNs = f.clock],
                   !.buffer = SetFileContext(@, s1[newPath].PreviousLines,
                                             s1[newPath].OriginalLines,
                                             s1[newPath].DiffHistories),
                   !.restored = TRUE]
           ELSE [f EXCEPT
                   !.store = [p \in DOMAIN s1 \ {newPath} |-> s1[p]],
                   !.buffer = SetFileContext(@, <<>>, currentLines, <<>>),
                   !.restored = FALSE])

switchRest == <<engineVars, sg, pa, mu, lp, st, restVars>>

\* syncBuffer: the buffer reports that it now shows file "b"
SwitchFile ==
    /\ fs.phase = "stored"
    /\ fs' = [handleFileSwitchContext(fs, "a", "b", fs.currentLines)
                 EXCEPT !.phase = "switched",
                        !.buffer.Lines = fs.currentLines,
                        !.stored = fs.store["b"]]
    /\ UNCHANGED switchRest

\* the buffer shows file "a"; file "b" was left with a diff history, its
\* state is stored, and it has since changed on disk to currentLines
InitSwitch ==
    /\ OthersOff
    /\ EngineInit
    /\ config = NewEngine.config
    /\ mu = "free"
    /\ sg = NoStaging
    /\ pa = NoPartial
    /\ lp = NoLoop
    /\ st = NoStager
    /\ \E original \in FileContents, current \in FileContents :
          fs = [phase |-> "stored", clock |-> 1, restored |-> FALSE,
                stored |-> <<>>,
                store |-> [p \in {"b"} |->
                             [PreviousLines |-> original,
                              DiffHistories |-> <<"d">>,
                              OriginalLines |-> original,
                              LastAccessNs |-> 0]],
                currentLines |-> current,
                buffer |-> [Lines |-> <<0>>, PreviousLines |-> <<0>>,
                            OriginalLines |-> <<0>>, DiffHistories |-> <<>>]]

NextSwitch == SwitchFile

SpecSwitch == InitSwitch /\ [][NextSwitch]_vars

\* how many of the sampled lines of the current file equal the same line of
\* the stored original
SampledEqual(original, current) ==
    Cardinality({ i \in SamplePoints(Len(current)) :
                    i <= Len(original) /\ original[i] = current[i] })

\* C37: on a switch to a file with a stored state, the stored previous lines,
\* original lines and diff history are restored if and only if the stored
\* original's line count differs from the current one by at most
\* max(10% of the original count, 10) and at least half of the sampled lines
\* {first, middle, last} equal the stored original; otherwise the entry is
\* dropped and the context is reset to the current lines.
C37_RestoredIffValid ==
    fs.phase = "switched"
       => With(fs.stored.OriginalLines, LAMBDA original :
            IF /\ Abs(Len(original) - Len(fs.currentLines))
                     <= Max(Len(original) \div 10, 10)
               /\ 2 * SampledEqual(original, fs.currentLines)
                     >= Cardinality(SamplePoints(Len(fs.currentLines)))
            THEN /\ fs.buffer.PreviousLines = fs.stored.PreviousLines
                 /\ fs.buffer.OriginalLines = original
                 /\ fs.buffer.DiffHistories = fs.stored.DiffHistories
                 /\ "b" \in DOMAIN fs.store
            ELSE /\ "b" \notin DOMAIN fs.store
                 /\ fs.buffer.PreviousLines = <<>>
                 /\ fs.buffer.OriginalLines = fs.currentLines
                 /\ fs.buffer.DiffHistories = <<>>)

(***************************************************************************)
(* The incremental diff builder alone (SpecMatch): an old text that may    *)
(* repeat lines, and a stream of lines in any order.                       *)
(***************************************************************************)
\* lines of the old text in SpecMatch
MatchOld == 3

\* lines streamed in SpecMatch
MatchNew == 4

\* the lines of the old text, and the lines that are streamed
MatchOldLines == {OldLine(1), OldLine(2), EmptyLine}

MatchNewLines == {OldLine(1), OldLine(2), Appended(1), Fresh(0)}

matchRest == <<engineVars, sg, pa, fs, mu, lp, restVars>>

\* the provider streams a line: IncrementalDiffBuilder.AddLine
MatchAddLine(line) ==
    /\ st.phase = "match"
    /\ Len(st.b.NewLines) < MatchNew
    /\ st' = [st EXCEPT !.b = DiffAddLine(st.b, st.OldLines, line).b]
    /\ UNCHANGED matchRest

InitMatch ==
    /\ OthersOff
    /\ EngineInit
    /\ config = NewEngine.config
    /\ mu = "free"
    /\ sg = NoStaging
    /\ pa = NoPartial
    /\ fs = NoFiles
    /\ lp = NoLoop
    /\ \E k \in 0..MatchOld : \E old \in [1..k -> MatchOldLines] :
          st = [phase |-> "match", OldLines |-> old,
                b |-> NewIncrementalDiffBuilder]

NextMatch == \E line \in MatchNewLines : MatchAddLine(line)

SpecMatch == InitMatch /\ [][NextMatch]_vars

\* C38: while lines are streamed into the incremental diff builder,
\* oldLineIdx never decreases, and each old line is matched to at most one
\* streamed line.
C38_IdxGrowsOneMatchEach ==
    /\ [](st.phase = "match"
            => \A i, j \in 1..Len(st.b.NewToOld) :
                  (i # j /\ st.b.NewToOld[i] > 0)
                     => st.b.NewToOld[i] # st.b.NewToOld[j])
    /\ [][st.phase = "match" => st'.b.oldLineIdx >= st.b.oldLineIdx]_vars

\* a streamed line was matched to an old line that lies before one matched
\* earlier, and a later line equal to it found that old line taken
C38_Witness ==
    /\ st.phase = "match"
    /\ \E i, j, k \in 1..Len(st.b.NewToOld) :
          /\ i < j
          /\ j < k
          /\ st.b.NewToOld[j] > 0
          /\ st.b.NewToOld[j] < st.b.NewToOld[i]
          /\ st.b.NewLines[k] = st.b.NewLines[j]
          /\ st.b.NewToOld[k] # st.b.NewToOld[j]

\* ---------------------------------------------------------------------
\* The incremental stage builder with a cap on a stage's visible lines
\* (MaxVisibleLines > 0).

\* the largest cap the builder is constructed with
MaxVisible == 2

\* NewIncrementalStageBuilder(..., maxVisibleLines, ...): the builder and
\* the cap it keeps for the whole stream
InitCapped ==
    /\ OthersOff
    /\ EngineInit
    /\ config = [Enabled |-> TRUE, AutoAdvance |-> TRUE]
    /\ mu = "free"
    /\ sg = NoStaging
    /\ pa = NoPartial
    /\ fs = NoFiles
    /\ lp = NoLoop
    /\ \E in \in StagerInputs(StreamChanges), cap \in 1..MaxVisible :
           st = [phase |-> "capInput", in |-> in,
                 MaxVisibleLines |-> cap,
                 stages |-> <<>>,
                 firstNeedsNavigation |-> FALSE,
                 builder |-> NewIncrementalStageBuilder]

\* the provider streams the next line of its response: AddLine
CappedLine ==
    /\ st.phase \in {"capInput", "capStreaming"}
    /\ Len(st.builder.diffBuilder.NewLines) < Len(st.in.new)
    /\ \E pick \in 1..StreamChanges :
           st' = [st EXCEPT
                    !.phase = "capStreaming",
                    !.builder = StageAddLine(@, OldDoc, st.in, 1,
                        st.MaxVisibleLines,
                        st.in.new[Len(st.builder.diffBuilder.NewLines) + 1],
                        pick)]
    /\ UNCHANGED <<engineVars, sg, pa, fs, mu, lp, restVars>>

\* the stream ends: Finalize
CappedEnd ==
    /\ st.phase \in {"capInput", "capStreaming"}
    /\ Len(st.builder.diffBuilder.NewLines) = Len(st.in.new)
    /\ \E pick \in 1..StreamChanges :
           \E r \in {Finalize(st.builder, OldDoc, st.in, 1, pick)} :
               st' = [st EXCEPT !.phase = "capped", !.stages = r.Stages,
                                !.firstNeedsNavigation =
                                    r.FirstNeedsNavigation]
    /\ UNCHANGED <<engineVars, sg, pa, fs, mu, lp, restVars>>

NextCapped == CappedLine \/ CappedEnd

SpecCapped == InitCapped /\ [][NextCapped]_vars

\* C39: when MaxVisibleLines > 0, no stage the incremental stage builder
\* produces spans more than MaxVisibleLines lines of new content, neither a
\* stage finalized while the stream runs nor a stage of the final result.
C39_StagesWithinCap ==
    /\ st.phase = "capStreaming"
          => \A i \in 1..Len(st.builder.finalizedStages) :
                Len(st.builder.finalizedStages[i].Lines) <= st.MaxVisibleLines
    /\ st.phase = "capped"
          => \A i \in 1..Len(st.stages) :
                Len(st.stages[i].Lines) <= st.MaxVisibleLines

\* ---------------------------------------------------------------------
\* The provider's context window: truncateContext and trimByBytes.

\* the most lines a request carries
TruncLines == 3
\* the most bytes a line holds
MaxLineBytes == 2
\* the largest MaxInputLines and MaxInputBytes of the provider's limits
LimitLines == 3
LimitBytes == 6

\* a line of the request: its position in the buffer and its byte length
RequestLines(k) == { [i \in 1..k |-> [i |-> i, bytes |-> b[i]]] : b \in [1..k -> 0..MaxLineBytes] }

\* Go's integer division truncates toward zero
GoDiv(a, b) == IF a >= 0 THEN a \div b ELSE 0 - ((0 - a) \div b)

\* totalBytes += len(line) + 1
RECURSIVE TotalBytes(_)
TotalBytes(lines) ==
    IF lines = <<>> THEN 0
    ELSE lines[1].bytes + 1 + TotalBytes(Tail(lines))

\* the first loop of trimByBytes: lines before the cursor while they fit
\* into halfBudget (indices count from 0 as in the code)
RECURSIVE trimBefore(_, _, _, _)
trimBefore(lines, startIdx, bytesBefore, halfBudget) ==
    IF startIdx > 0 /\ bytesBefore < halfBudget
    THEN IF bytesBefore + lines[startIdx].bytes + 1 <= halfBudget
         THEN trimBefore(lines, startIdx - 1,
                         bytesBefore + lines[startIdx].bytes + 1, halfBudget)
         ELSE [startIdx |-> startIdx, bytesBefore |-> bytesBefore]
    ELSE [startIdx |-> startIdx, bytesBefore |-> bytesBefore]

\* the second loop: lines after the cursor while they fit into budgetAfter
RECURSIVE trimAfter(_, _, _, _)
trimAfter(lines, endIdx, bytesAfter, budgetAfter) ==
    IF endIdx < Len(lines) - 1 /\ bytesAfter < budgetAfter
    THEN IF bytesAfter + lines[endIdx + 2].bytes + 1 <= budgetAfter
         THEN trimAfter(lines, endIdx + 1,
                        bytesAfter + lines[endIdx + 2].bytes + 1, budgetAfter)
         ELSE [endIdx |-> endIdx, bytesAfter |-> bytesAfter]
    ELSE [endIdx |-> endIdx, bytesAfter |-> bytesAfter]

\* the third loop: what the lines after the cursor left unused is given
\* to the lines before it
RECURSIVE trimRefill(_, _, _, _)
trimRefill(lines, startIdx, bytesBefore, budget) ==
    IF startIdx > 0 /\ bytesBefore + lines[startIdx].bytes + 1 <= budget
    THEN trimRefill(lines, startIdx - 1,
                    bytesBefore + lines[startIdx].bytes + 1, budget)
    ELSE [startIdx |-> startIdx, bytesBefore |-> bytesBefore]

trimByBytes(lines, cursorIdxInWindow, baseOffset, maxBytes) ==
    IF Len(lines) = 0 THEN [lines |-> lines, startLine |-> baseOffset]
    ELSE
    LET cursorIdx == IF cursorIdxInWindow < 0 THEN 0
                     ELSE IF cursorIdxInWindow >= Len(lines)
                          THEN Len(lines) - 1
                          ELSE cursorIdxInWindow
        cursorLineBytes == lines[cursorIdx + 1].bytes + 1
        remainingBudget == maxBytes - cursorLineBytes
        halfBudget == GoDiv(remainingBudget, 2)
        before == trimBefore(lines, cursorIdx, 0, halfBudget)
        unusedBefore == halfBudget - before.bytesBefore
        budgetAfter == halfBudget + unusedBefore
        after == trimAfter(lines, cursorIdx, 0, budgetAfter)
        unusedAfter == budgetAfter - after.bytesAfter
        startIdx == IF unusedAfter > 0
                    THEN trimRefill(lines, before.startIdx,
                                    before.bytesBefore,
                                    halfBudget + unusedAfter).startIdx
                    ELSE before.startIdx
    IN [lines |-> SubSeq(lines, startIdx + 1, after.endIdx + 1),
        startLine |-> baseOffset + startIdx]

truncateContext(lines, cursorRow, cursorCol, limits) ==
    IF Len(lines) = 0
    THEN [lines |-> lines, cursorRow |-> cursorRow, cursorCol |-> cursorCol,
          trimOffset |-> 0]
    ELSE IF /\ Len(lines) <= limits.MaxInputLines
            /\ TotalBytes(lines) <= limits.MaxInputBytes
    THEN [lines |-> lines, cursorRow |-> cursorRow, cursorCol |-> cursorCol,
          trimOffset |-> 0]
    ELSE
    LET row == IF cursorRow < 1 THEN 1
               ELSE IF cursorRow > Len(lines) THEN Len(lines) ELSE cursorRow
        cursorIdx == row - 1
        effectiveMax == Min({limits.MaxInputLines, Len(lines)})
        halfWindow == effectiveMax \div 2
        startLine0 == Max(0, cursorIdx - halfWindow)
        endLine == Min({Len(lines), startLine0 + effectiveMax})
        startLine == IF endLine = Len(lines)
                     THEN Max(0, endLine - effectiveMax)
                     ELSE startLine0
        result == SubSeq(lines, startLine + 1, endLine)
        trimmed == IF TotalBytes(result) > limits.MaxInputBytes
                   THEN trimByBytes(result, cursorIdx - startLine, startLine,
                                    limits.MaxInputBytes)
                   ELSE [lines |-> result, startLine |-> startLine]
    IN [lines |-> trimmed.lines, cursorRow |-> row - trimmed.startLine,
        cursorCol |-> cursorCol, trimOffset |-> trimmed.startLine]

truncRest == <<engineVars, sg, pa, fs, mu, lp, st, rc, ac, cl>>

\* a request reaches the provider: its lines, its cursor and the limits
InitTruncate ==
    /\ EngineInit
    /\ config = NewEngine.config
    /\ mu = "free"
    /\ sg = NoStaging
    /\ pa = NoPartial
    /\ fs = NoFiles
    /\ lp = NoLoop
    /\ st = NoStager
    /\ rc = NoRace
    /\ ac = NoAccept
    /\ cl = NoClear
    /\ \E k \in 0..TruncLines : \E lines \in RequestLines(k) :
       \E row \in 0..(TruncLines + 1) :
       \E maxLines \in 1..LimitLines, maxBytes \in 1..LimitBytes :
          tc = [phase |-> "request", lines |-> lines, cursorRow |-> row,
                cursorCol |-> 0,
                limits |-> [MaxInputLines |-> maxLines,
                            MaxInputBytes |-> maxBytes],
                out |-> [lines |-> <<>>, cursorRow |-> 0, cursorCol |-> 0,
                         trimOffset |-> 0]]

\* the provider trims the request before it builds the prompt
TruncateCalled ==
    /\ tc.phase = "request"
    /\ tc' = [tc EXCEPT !.phase = "trimmed",
                        !.out = truncateContext(tc.lines, tc.cursorRow,
                                                tc.cursorCol, tc.limits)]
    /\ UNCHANGED truncRest

NextTruncate == TruncateCalled

SpecTruncate == InitTruncate /\ [][NextTruncate]_vars

\* the cursor row truncateContext works with: clamped into the lines
ClampedRow(lines, row) ==
    IF row < 1 THEN 1 ELSE IF row > Len(lines) THEN Len(lines) ELSE row

\* C40: truncateContext returns its input unchanged when it is within both
\* MaxInputLines and MaxInputBytes; otherwise the returned lines are a
\* window of the input that contains the cursor line, has at most
\* MaxInputLines lines, and whose total size (each line's bytes + 1) does
\* not exceed MaxInputBytes unless the cursor line alone exceeds it.
C40_WindowWithinLimits ==
    tc.phase = "trimmed" =>
       IF /\ Len(tc.lines) <= tc.limits.MaxInputLines
          /\ TotalBytes(tc.lines) <= tc.limits.MaxInputBytes
       THEN /\ tc.out.lines = tc.lines
            /\ tc.out.cursorRow = tc.cursorRow
            /\ tc.out.trimOffset = 0
       ELSE /\ tc.out.lines =
                  SubSeq(tc.lines, tc.out.trimOffset + 1,
                         tc.out.trimOffset + Len(tc.out.lines))
            /\ ClampedRow(tc.lines, tc.cursorRow) > tc.out.trimOffset
            /\ ClampedRow(tc.lines, tc.cursorRow)
                  <= tc.out.trimOffset + Len(tc.out.lines)
            /\ Len(tc.out.lines) <= tc.limits.MaxInputLines
            /\ \/ TotalBytes(tc.out.lines) <= tc.limits.MaxInputBytes
               \/ tc.lines[ClampedRow(tc.lines, tc.cursorRow)].bytes + 1
                     > tc.limits.MaxInputBytes

====
